---------------------------- MODULE Spec2Model ----------------------------
(***************************************************************************)
(* The query-validation traversal of src/validation/visitor.rs: visit()    *)
(* walks a parsed GraphQL document against a registry, keeps the stack of  *)
(* current schema types in the VisitorContext, fires the enter/exit hooks  *)
(* of the visitor and appends rule errors to the context.                  *)
(*                                                                         *)
(* The recursion of the visit_* functions is modelled by an explicit call  *)
(* stack of frames; every action is one step of one visit_* function.      *)
(***************************************************************************)
EXTENDS Naturals, Sequences, FiniteSets, TLC

(***************************************************************************)
(* Bounds of the model.                                                    *)
(***************************************************************************)
\* a document has at most this many definitions
MaxDefinitions == 2
\* and at most this many selections, over all its selection sets
MaxSelections == 2
\* call frames the thread's stack has room for; beyond it the process
\* aborts with a stack overflow
StackCapacity == 24

Last(s) == s[Len(s)]
Front(s) == SubSeq(s, 1, Len(s) - 1)

(***************************************************************************)
(* The registry (crate::registry, not part of the sources at hand).        *)
(* A type reference is kept in its textual form, as a sequence of tokens:  *)
(* "[Obj!]!" is << "[", "Obj", "!", "]", "!" >>.                           *)
(***************************************************************************)
NoType == "<none>"

Field(name, ty) == [name |-> name, ty |-> ty]

IntType ==
    [kind |-> "Scalar", name |-> "Int", fields |-> << >>]
\* type Query { o: [Obj!]! }
QueryType ==
    [kind |-> "Object", name |-> "Query",
     fields |-> [f \in {"o"} |-> Field("o", << "[", "Obj", "!", "]", "!" >>)]]
\* type Obj { o: Query }
ObjType ==
    [kind |-> "Object", name |-> "Obj",
     fields |-> [f \in {"o"} |-> Field("o", << "Query" >>)]]
\* type Mutation { o: Int! }, and so for Subscription
RootType(n) ==
    [kind |-> "Object", name |-> n,
     fields |-> [f \in {"o"} |-> Field("o", << "Int", "!" >>)]]

\* a registry with the optional root types m and s (NoType: not configured)
Registry(m, s) ==
    [types |-> [n \in ({"Int", "Query", "Obj"} \cup ({m, s} \ {NoType})) |->
                  CASE n = "Int" -> IntType
                    [] n = "Query" -> QueryType
                    [] n = "Obj" -> ObjType
                    [] OTHER -> RootType(n)],
     query_type |-> "Query",
     mutation_type |-> m,
     subscription_type |-> s]

\* a schema built without mutations and subscriptions, and one with both
Registries ==
    { Registry(NoType, NoType), Registry("Mutation", "Subscription") }

\* an Option: << >> is None, << x >> is Some(x)
None == << >>
Some(x) == << x >>

\* registry::Type::field_by_name: the fields of objects; none on a scalar
field_by_name(ty, name) ==
    IF ty.kind = "Object" /\ name \in DOMAIN ty.fields
    THEN Some(ty.fields[name]) ELSE None

\* registry::TypeName::concrete_typename: strips the list and non-null
\* wrappers of the textual form down to the named type
RECURSIVE concrete_typename(_)
concrete_typename(ty) ==
    IF Len(ty) > 1 /\ Last(ty) = "!" THEN concrete_typename(Front(ty))
    ELSE IF Len(ty) > 2 /\ ty[1] = "[" THEN concrete_typename(SubSeq(ty, 2, Len(ty) - 1))
    ELSE ty[1]

\* registry::Registry::basic_type_by_typename
basic_type_by_typename(reg, ty) ==
    IF concrete_typename(ty) \in DOMAIN reg.types
    THEN concrete_typename(ty) ELSE NoType

(***************************************************************************)
(* Documents (graphql_parser::query).  A node is addressed by its path:    *)
(* << i >> is definition i, Append(p, j) the j-th selection of the         *)
(* selection set of node p.  The source position of a node is unique to    *)
(* it in the document: it is modelled by the node's path, the position of  *)
(* the k-th directive of node p by p \o << 0, k >>.                        *)
(***************************************************************************)
NoTypeCondition == "<no type condition>"

Argument(n, v) == [name |-> n, value |-> v]
Directive(n, args) == [name |-> n, arguments |-> args]

SkipDirective == Directive("skip", << Argument("if", "true") >>)

Selection(kind, name, tc, args, dirs) ==
    [kind |-> kind, name |-> name, type_condition |-> tc,
     arguments |-> args, directives |-> dirs, items |-> << >>]

\* the selections that carry a selection set
ContainerHeads ==
    { Selection("Field", "o", NoTypeCondition,
                << Argument("x", "1"), Argument("y", "2") >>, << SkipDirective >>),
      Selection("Field", "zz", NoTypeCondition,
                << Argument("x", "1") >>, << SkipDirective >>),
      Selection("InlineFragment", "", NoTypeCondition, << >>, << SkipDirective >>),
      Selection("InlineFragment", "", "Obj", << >>, << SkipDirective >>),
      Selection("InlineFragment", "", "Nope", << >>, << SkipDirective >>) }

\* the selections that carry none
LeafHeads ==
    { Selection("FragmentSpread", "F", NoTypeCondition, << >>, << SkipDirective >>) }

\* the selection sets (sequences of selections) of exactly n selections
RECURSIVE SelectionSets(_)
SelectionSets(n) ==
    IF n = 0 THEN { << >> }
    ELSE UNION { { << [h EXCEPT !.items = sub] >> \o rest :
                     h \in ContainerHeads,
                     sub \in SelectionSets(k),
                     rest \in SelectionSets(n - 1 - k) } : k \in 0..(n - 1) }
         \cup { << h >> \o rest : h \in LeafHeads, rest \in SelectionSets(n - 1) }

Definition(kind, op, name, tc, vars, dirs) ==
    [kind |-> kind, op |-> op, name |-> name, type_condition |-> tc,
     variable_definitions |-> vars, directives |-> dirs, items |-> << >>]

DefinitionHeads ==
    { Definition("Operation", "SelectionSet", "", NoTypeCondition, << >>, << >>),
      Definition("Operation", "Query", "Q", NoTypeCondition,
                 << "v1", "v2" >>, << SkipDirective >>),
      Definition("Operation", "Mutation", "M", NoTypeCondition, << "v1" >>, << >>),
      Definition("Operation", "Subscription", "S", NoTypeCondition, << >>, << >>),
      Definition("Fragment", "", "F", "Obj", << >>, << SkipDirective >>),
      Definition("Fragment", "", "F", "Nope", << >>, << SkipDirective >>) }

\* the documents of d definitions and n selections
RECURSIVE DocumentsOf(_, _)
DocumentsOf(d, n) ==
    IF d = 0 THEN (IF n = 0 THEN { << >> } ELSE { })
    ELSE UNION { { << [h EXCEPT !.items = sub] >> \o rest :
                     h \in DefinitionHeads,
                     sub \in SelectionSets(k),
                     rest \in DocumentsOf(d - 1, n - k) } : k \in 0..n }

Documents ==
    UNION { DocumentsOf(d, n) : d \in 1..MaxDefinitions, n \in 0..MaxSelections }

\* VisitorContext::new: the fragments of the document by name; collecting
\* into the map, a later fragment replaces an earlier one of the same name
Fragments(d) ==
    [n \in { d[i].name : i \in { j \in 1..Len(d) : d[j].kind = "Fragment" } } |->
       CHOOSE i \in 1..Len(d) :
         /\ d[i].kind = "Fragment" /\ d[i].name = n
         /\ \A j \in (i + 1)..Len(d) : ~(d[j].kind = "Fragment" /\ d[j].name = n)]

(***************************************************************************)
(* The visitors.  A chain is VisitorNil or VisitorCons(head, tail); the    *)
(* validation rules at its heads are not part of the sources at hand and   *)
(* are stood for by three rules whose hooks report errors that depend on   *)
(* the node and the type stack only.                                       *)
(***************************************************************************)
\* a chain holds at most this many rules
MaxVisitors == 2

VisitorNil == [kind |-> "Nil"]
VisitorCons(a, b) == [kind |-> "Cons", head |-> a, tail |-> b]
Rule(id) == [kind |-> "Rule", id |-> id]
RuleOrder == << "r1", "r2", "r3" >>
RuleIds == { RuleOrder[i] : i \in 1..Len(RuleOrder) }

\* VisitorNil::with, VisitorCons::with
with(self, visitor) == VisitorCons(visitor, self)

\* VisitorNil.with(rs[1]).with(rs[2]) ... .with(rs[n])
RECURSIVE Build(_)
Build(rs) == IF rs = << >> THEN VisitorNil ELSE with(Build(Front(rs)), Rule(Last(rs)))

\* the orders in which up to MaxVisitors different rules can be inserted
RuleSeqs ==
    UNION { { rs \in [1..n -> RuleIds] : \A i, j \in 1..n : i # j => rs[i] # rs[j] } :
            n \in 0..MaxVisitors }
Chains == { Build(rs) : rs \in RuleSeqs }

\* the rules of a chain, from the outermost head to the innermost tail
RECURSIVE Heads(_)
Heads(v) == IF v.kind = "Nil" THEN << >> ELSE << v.head.id >> \o Heads(v.tail)

\* the chain of the same rules inserted in the order of RuleOrder
Canonical(v) ==
    LET present(id) == \E i \in 1..Len(Heads(v)) : Heads(v)[i] = id
    IN  Build(SelectSeq(RuleOrder, present))

(***************************************************************************)
(* FieldValue (src/dynamic/field.rs): the value a resolver returns.        *)
(* An erased object (dyn Any) is its type identity and its data.           *)
(***************************************************************************)
\* a FieldValue nests lists and typed wrappers at most this deep
MaxDepth == 2
\* and a list holds at most this many values
MaxListLen == 2

Values ==
    { [kind |-> "Null", v |-> ""], [kind |-> "Number", v |-> "1"],
      [kind |-> "Enum", v |-> "A"], [kind |-> "String", v |-> "A"] }
\* the types a resolver erases: i32 and String
TypeIds == { "i32", "String" }
Objects == [type_id : TypeIds, data : { "x", "y" }]
TypeNames == { "MyObj" }

\* the variants of FieldValue and their constructors
Value(v) == [tag |-> "Value", value |-> v, ty |-> ""]
BorrowedAny(obj) == [tag |-> "BorrowedAny", value |-> obj, ty |-> ""]
OwnedAny(obj) == [tag |-> "OwnedAny", value |-> obj, ty |-> ""]
List(values) == [tag |-> "List", value |-> values, ty |-> ""]
WithType(v, ty) == [tag |-> "WithType", value |-> v, ty |-> ty]
NULL == Value([kind |-> "Null", v |-> ""])
value(v) == Value(v)
owned_any(obj) == OwnedAny(obj)
borrowed_any(obj) == BorrowedAny(obj)
list(values) == List(values)
FieldValue_with_type(v, ty) == WithType(v, ty)

\* Result and Error::new
Ok(x) == [ok |-> TRUE, v |-> << x >>]
Err(msg) == [ok |-> FALSE, v |-> msg]
ok_or_else(option, msg) == IF option = None THEN Err(msg) ELSE Ok(option[1])

\* as_value looking through a typed wrapper
as_value_unwraps(self) ==
    IF self.tag = "Value" THEN Some(self.value)
    ELSE IF self.tag = "WithType" /\ self.value.tag = "Value"
    THEN Some(self.value.value) ELSE None

\* FieldValue::as_value, try_to_value
as_value(self) == IF self.tag = "Value" THEN Some(self.value) ELSE None
try_to_value(self) == ok_or_else(as_value(self), "internal: not a Value")

\* FieldValue::as_list, try_to_list
as_list(self) == IF self.tag = "List" THEN Some(self.value) ELSE None
try_to_list(self) == ok_or_else(as_list(self), "internal: not a list")

\* <dyn Any>::downcast_ref::<T>
Any_downcast_ref(obj, T) == IF obj.type_id = T THEN Some(obj) ELSE None

\* downcast_ref looking through a typed wrapper
downcast_ref_unwraps(self, T) ==
    CASE self.tag \in {"BorrowedAny", "OwnedAny"} -> Any_downcast_ref(self.value, T)
      [] self.tag = "WithType" /\ self.value.tag \in {"BorrowedAny", "OwnedAny"} ->
           Any_downcast_ref(self.value.value, T)
      [] OTHER -> None

\* FieldValue::downcast_ref, try_downcast_ref
downcast_ref(self, T) ==
    CASE self.tag = "BorrowedAny" -> Any_downcast_ref(self.value, T)
      [] self.tag = "OwnedAny" -> Any_downcast_ref(self.value, T)
      [] OTHER -> None
\* std::any::type_name
type_name(T) == IF T = "String" THEN "alloc::string::String" ELSE T
try_downcast_ref(self, T) ==
    ok_or_else(downcast_ref(self, T), "internal: not type \"" \o type_name(T) \o "\"")

\* no call yet
NoResult == [op |-> "", arg |-> "", out |-> << >>]

\* how deep the lists and typed wrappers of a FieldValue nest
RECURSIVE Depth(_)
Depth(v) ==
    CASE v.tag = "WithType" -> 1 + Depth(v.value)
      [] v.tag = "List" ->
           IF v.value = << >> THEN 1 ELSE 1 + Depth(v.value[1])
      [] OTHER -> 0

(***************************************************************************)
(* Enum (src/dynamic/enum.rs): the builder of an enum type.  An IndexMap   *)
(* is the sequence of its entries in the order of their first insertion.   *)
(***************************************************************************)
Entry(key, v) == [key |-> key, value |-> v]
Keys(map) == { map[i].key : i \in DOMAIN map }
\* IndexMap::insert that keeps the entry a key already has
IndexMap_insert_keeps_first(map, key, v) ==
    IF key \in Keys(map) THEN map ELSE Append(map, Entry(key, v))

IndexMap_insert(map, key, v) ==
    IF key \in Keys(map)
    THEN [i \in DOMAIN map |-> IF map[i].key = key THEN Entry(key, v) ELSE map[i]]
    ELSE Append(map, Entry(key, v))

EnumItem_new(name) ==
    [name |-> name, description |-> None, deprecation |-> "NoDeprecated"]
Enum_new(name) ==
    [name |-> name, description |-> None, enum_values |-> << >>]
\* EnumItem::description and Enum::description
description(self, d) == [self EXCEPT !.description = Some(d)]
item(self, x) ==
    [self EXCEPT !.enum_values = IndexMap_insert(@, x.name, x)]

\* InputValue (src/dynamic/input_value.rs) and Field (src/dynamic/field.rs)
InputValue_new(name, ty) ==
    [name |-> name, description |-> None, ty |-> ty, default_value |-> None]
InputValues == { InputValue_new(n, ty) : n \in { "input", "other" }, ty \in { "MyEnum", "Int" } }
Field_new(name, ty) ==
    [name |-> name, description |-> None, arguments |-> << >>, ty |-> ty,
     deprecation |-> "NoDeprecated"]
argument(self, input_value) ==
    [self EXCEPT !.arguments = IndexMap_insert(@, input_value.name, input_value)]

MetaEnumValue(x) ==
    [name |-> x.name, description |-> x.description,
     deprecation |-> x.deprecation]
MetaEnum(self, values) ==
    [kind |-> "Enum", name |-> self.name, description |-> self.description,
     enum_values |-> values]
\* the values in the reverse of the builder's order
RECURSIVE MetaEnumValues_reversed(_)
MetaEnumValues_reversed(items) ==
    IF items = << >> THEN << >>
    ELSE IndexMap_insert(MetaEnumValues_reversed(Tail(items)), Head(items).value.name,
                         MetaEnumValue(Head(items).value))

RECURSIVE MetaEnumValues(_)
MetaEnumValues(items) ==
    IF items = << >> THEN << >>
    ELSE IndexMap_insert(MetaEnumValues(Front(items)), Last(items).value.name,
                         MetaEnumValue(Last(items).value))

\* register leaving the last item out
register_without_last(self, reg) ==
    [reg EXCEPT !.types =
        (self.name :> MetaEnum(self, MetaEnumValues(Front(self.enum_values)))) @@ @]

\* Enum::register: the registry it leaves; it returns Ok(())
register(self, reg) ==
    [reg EXCEPT !.types =
        (self.name :> MetaEnum(self, MetaEnumValues(self.enum_values))) @@ @]

\* the names an enum may be given, one of them the name of an object type
\* of the registry, and the items it may be given
EnumNames == { "MyEnum", "Obj" }
ItemNames == { "A", "B", "C" }
EnumItems ==
    { EnumItem_new(n) : n \in ItemNames }
      \cup { description(EnumItem_new(n), "d") : n \in ItemNames }

(***************************************************************************)
(* The executor, on the schema of the test of src/dynamic/enum.rs:         *)
(*   type Query { value: E  value2(input: E): E  errValue: E }             *)
(* for the registered enum E.  The resolver of value returns the name A,   *)
(* that of value2 the name of its argument, that of errValue the name C.   *)
(* A query is the sequence of the fields it selects on one line,           *)
(* "{ f1 f2 }".                                                            *)
(***************************************************************************)
QueryField(name, arg) == [name |-> name, input |-> arg]
QueryFields ==
    { QueryField("value", None), QueryField("errValue", None) }
      \cup { QueryField("value2", Some(n)) : n \in ItemNames }
Queries ==
    { << f >> : f \in QueryFields }
      \cup { q \in QueryFields \X QueryFields : q[1].name # q[2].name }

\* the name the resolver of field f returns
Resolved(f) ==
    CASE f.name = "value" -> "A"
      [] f.name = "value2" -> f.input[1]
      [] f.name = "errValue" -> "C"

\* the characters a field takes in the query text: value2(input: B) is 16
Width(f) ==
    CASE f.name = "value" -> 5
      [] f.name = "value2" -> 16
      [] f.name = "errValue" -> 8
RECURSIVE Column(_, _)
Column(q, i) == IF i = 1 THEN 3 ELSE Column(q, i - 1) + Width(q[i - 1]) + 1
Pos(line, column) == [line |-> line, column |-> column]

ServerError(message, pos, path) ==
    [message |-> message, source |-> None, locations |-> << pos >>,
     path |-> path, extensions |-> None]

\* the enum output check on the name a resolver returned for a field of
\* enum type ty
EnumOutput(reg, ty, name) ==
    IF name \in Keys(reg.types[ty].enum_values)
    THEN Ok([kind |-> "Enum", v |-> name])
    ELSE Err("internal: invalid item for enum \"" \o ty \o "\"")

\* Schema::execute: the fields one after another; a failing field is null
\* in the data and leaves an error with its path and position
RECURSIVE execute(_, _, _)
execute(reg, ty, q) ==
    IF q = << >> THEN [data |-> << >>, errors |-> << >>]
    ELSE LET before == execute(reg, ty, Front(q))
             f == Last(q)
             out == EnumOutput(reg, ty, Resolved(f))
         IN  IF out.ok
             THEN [before EXCEPT !.data = Append(@, Entry(f.name, out.v[1]))]
             ELSE [data |-> Append(before.data, Entry(f.name, [kind |-> "Null", v |-> ""])),
                   errors |-> Append(before.errors,
                                     ServerError(out.v, Pos(1, Column(q, Len(q))),
                                                 << f.name >>))]

\* Response::into_result
into_result(response) ==
    IF response.errors # << >> THEN Err(response.errors) ELSE Ok(response)

(***************************************************************************)
(* State.                                                                  *)
(*   doc, registry      the inputs of the traversal                        *)
(*   chain              the visitor handed to visit                        *)
(*   fragments          VisitorContext.fragments                           *)
(*   errors             VisitorContext.errors                              *)
(*   type_stack         VisitorContext.type_stack (names of registry types)*)
(*   stack              the call stack of the visit_* functions            *)
(*   hooks              the hooks fired on the visitor so far, each with   *)
(*                      what the hook could observe of the context         *)
(*   calls              the hooks of the rules that ran, in order          *)
(*   canonical          the error vector of the same traversal with the    *)
(*                      rules of the chain composed in canonical order     *)
(*   status             "running", "returned" (visit has returned),        *)
(*                      "overflow" (the thread's stack overflowed) or      *)
(*                      "idle" (no traversal)                              *)
(*   other              the context and position of the traversal that is  *)
(*                      not taking steps now, if there are two             *)
(*   alone              the errors of the traversal run alone, once run    *)
(*   fv                 the FieldValue at hand (dynamic schema)            *)
(*   enum               the Enum being built (dynamic schema)              *)
(*   field_builder      the Field being built (dynamic schema)             *)
(*   result             the last call, its argument and what it returned   *)
(***************************************************************************)
VARIABLES doc, registry, chain, fragments, errors, type_stack, stack, hooks,
          calls, canonical, status, other, alone, fv, enum, field_builder,
          result

\* what a traversal is handed and what it has nothing to do with
dynamic == << fv, enum, field_builder, result >>
input == << doc, registry, chain, fragments, other, alone, dynamic >>
vars == << doc, registry, chain, fragments, errors, type_stack, stack, hooks,
           calls, canonical, status, other, alone, fv, enum, field_builder,
           result >>

Frame(fn, node, pc, i) == [fn |-> fn, node |-> node, pc |-> pc, i |-> i]

RECURSIVE Descend(_, _)
Descend(n, p) == IF p = << >> THEN n ELSE Descend(n.items[Head(p)], Tail(p))
\* the definition or selection at path p
NodeAt(p) == Descend(doc[Head(p)], Tail(p))

Position(p) == p
DirectivePosition(p, k) == p \o << 0, k >>
IsDirectivePosition(pos) == Len(pos) > 2 /\ pos[Len(pos) - 1] = 0
\* the arguments of the field or directive at position pos
ArgumentsAt(pos) ==
    IF IsDirectivePosition(pos)
    THEN NodeAt(SubSeq(pos, 1, Len(pos) - 2)).directives[Last(pos)].arguments
    ELSE NodeAt(pos).arguments

Top == Last(stack)
Running == status = "running" /\ stack # << >> /\ Len(stack) <= StackCapacity
In(fn, pc) == Running /\ Top.fn = fn /\ Top.pc = pc

\* the caller goes on at pc (and loop index i) and calls the frames fs
Call(pc, i, fs) == stack' = Append(Front(stack), [Top EXCEPT !.pc = pc, !.i = i]) \o fs
Goto(pc, i) == stack' = Append(Front(stack), [Top EXCEPT !.pc = pc, !.i = i])
Return == stack' = Front(stack)

\* report_error putting the new error in front of the recorded ones
report_error_in_front(errs, pos, msg) ==
    << [locations |-> << pos >>, message |-> msg] >> \o errs

\* VisitorContext::report_error, append_errors
RuleError(pos, msg) == [locations |-> << pos >>, message |-> msg]
report_error(errs, pos, msg) == Append(errs, RuleError(pos, msg))
append_errors(errs, es) == errs \o es

\* with_type without its pop
with_type_pop_forgotten(ts) == ts

\* VisitorContext::with_type: push, call f, pop
\* with_type without the push
with_type_push_forgotten(ts, ty) == ts
with_type_push(ts, ty) == Append(ts, ty)
with_type_pop(ts) == Front(ts)
WithTypeFrame == Frame("with_type", << >>, "pop", 0)

\* parent_type answering with the top of the stack
parent_type_top ==
    IF Len(type_stack) >= 2 THEN type_stack[Len(type_stack)] ELSE NoType

\* VisitorContext::current_type, parent_type
current_type == registry.types[Last(type_stack)]
parent_type ==
    IF Len(type_stack) >= 2 THEN type_stack[Len(type_stack) - 1] ELSE NoType

\* one hook of the visitor, with what it can observe of the context it is
\* handed: the type stack and the number of errors reported so far
Hook(h, node, arg) ==
    [hook |-> h, node |-> node, arg |-> arg,
     type_stack |-> type_stack, errors |-> Len(errors)]

\* the hook e of rule id: what it does to the error vector of the context
RuleHook(id, e, errs) ==
    CASE id = "r1" /\ e.hook \in {"enter_document", "enter_field"} ->
           report_error(errs, e.node, "r1: " \o e.hook)
      [] id = "r2" /\ e.hook = "enter_field" ->
           append_errors(errs, << RuleError(e.node, "r2: parent " \o parent_type),
                                  RuleError(e.node, "r2: field") >>)
      [] id = "r2" /\ e.hook = "exit_document" ->
           report_error(errs, e.node, "r2: " \o e.hook)
      [] OTHER -> errs

\* VisitorCons running the hook of its tail before the hook of its head
RECURSIVE Notify(_, _, _)
VisitorCons_hook_tail_first(v, e, st) == Notify(v.head, e, Notify(v.tail, e, st))

\* VisitorCons running the hook of its head only
VisitorCons_hook_head_only(v, e, st) == Notify(v.head, e, st)

\* impl Visitor for VisitorCons: every hook is the hook of the head, then
\* the hook of the tail; st is the error vector of the context and the log
\* of the rule hooks that ran
VisitorCons_hook(v, e, st) == Notify(v.tail, e, Notify(v.head, e, st))

\* the hook e of visitor v; VisitorNil keeps the default (empty) hooks
Notify(v, e, st) ==
    CASE v.kind = "Nil" -> st
      [] v.kind = "Cons" -> VisitorCons_hook(v, e, st)
      [] v.kind = "Rule" ->
           [errors |-> RuleHook(v.id, e, st.errors),
            calls |-> Append(st.calls,
                             [visitor |-> v.id, hook |-> e.hook,
                              node |-> e.node, arg |-> e.arg])]

\* the hooks evs, one after the other
RECURSIVE NotifyAll(_, _, _)
NotifyAll(v, evs, st) ==
    IF evs = << >> THEN st ELSE NotifyAll(v, Tail(evs), Notify(v, Head(evs), st))

\* the traversal fires the hooks evs on the visitor
FireOnly(evs) ==
    /\ hooks' = hooks \o evs
    /\ calls' = NotifyAll(chain, evs, [errors |-> errors, calls |-> calls]).calls
\* the error vector after the hooks evs
Heard(evs) ==
    /\ errors' = NotifyAll(chain, evs, [errors |-> errors, calls |-> calls]).errors
    /\ canonical' =
         NotifyAll(Canonical(chain), evs, [errors |-> canonical, calls |-> << >>]).errors
\* and after the error the traversal itself reports next
HeardThenError(evs, pos, msg) ==
    /\ errors' = report_error(
         NotifyAll(chain, evs, [errors |-> errors, calls |-> calls]).errors, pos, msg)
    /\ canonical' = report_error(
         NotifyAll(Canonical(chain), evs, [errors |-> canonical, calls |-> << >>]).errors,
         pos, msg)
Fire(evs) == FireOnly(evs) /\ Heard(evs)

\* the context and the call of visit for document d, registry r, visitor v
Start(d, r, v) ==
    /\ doc = d
    /\ registry = r
    /\ chain = v
    /\ fragments = Fragments(d)
    /\ errors = << >>
    /\ canonical = << >>
    /\ type_stack = << >>
    /\ stack = << Frame("visit", << >>, "enter", 0) >>
    /\ hooks = << >>
    /\ calls = << >>
    /\ status = "running"
    /\ other = None
    /\ alone = None
    /\ fv = NULL
    /\ enum = Enum_new("")
    /\ field_builder = Field_new("", "")
    /\ result = NoResult

Init == \E d \in Documents, r \in Registries : Start(d, r, VisitorNil)

(***************************************************************************)
(* visit                                                                   *)
(***************************************************************************)
visit ==
    \/ /\ In("visit", "enter")
       /\ Fire(<< Hook("enter_document", << >>, "") >>)
       /\ Call("exit", 0, << Frame("visit_definitions", << >>, "loop", 1) >>)
       /\ UNCHANGED << input, type_stack, status >>
    \/ /\ In("visit", "exit")
       /\ Fire(<< Hook("exit_document", << >>, "") >>)
       /\ Return
       /\ status' = "returned"
       /\ UNCHANGED << input, type_stack >>

\* the error of a type condition that names no type of the registry
UnknownTypeMessage(name) == "Unknown type \"" \o name \o "\"."

\* visit_definitions with the else of the registry lookup lost: a fragment
\* on an unknown type is reported and visited all the same
visit_definitions_descends ==
    /\ In("visit_definitions", "loop")
    /\ LET i == Top.i IN
       \/ /\ i > Len(doc)
          /\ Return
          /\ UNCHANGED << input, errors, canonical, type_stack, hooks, calls, status >>
       \/ /\ i <= Len(doc)
          /\ doc[i].kind = "Operation"
          /\ Call("loop", i + 1,
                  << Frame("visit_operation_definition", << i >>, "enter", 0) >>)
          /\ UNCHANGED << input, errors, canonical, type_stack, hooks, calls, status >>
       \/ /\ i <= Len(doc)
          /\ doc[i].kind = "Fragment"
          /\ doc[i].type_condition \in DOMAIN registry.types
          /\ type_stack' = with_type_push(type_stack, doc[i].type_condition)
          /\ Call("loop", i + 1,
                  << WithTypeFrame,
                     Frame("visit_fragment_definition", << i >>, "enter", 0) >>)
          /\ UNCHANGED << input, errors, canonical, hooks, calls, status >>
       \/ /\ i <= Len(doc)
          /\ doc[i].kind = "Fragment"
          /\ doc[i].type_condition \notin DOMAIN registry.types
          /\ HeardThenError(<< >>, Position(<< i >>),
                            "Unknown type \"" \o doc[i].type_condition \o "\".")
          /\ type_stack' = with_type_push(type_stack, registry.query_type)
          /\ Call("loop", i + 1,
                  << WithTypeFrame,
                     Frame("visit_fragment_definition", << i >>, "enter", 0) >>)
          /\ UNCHANGED << input, hooks, calls, status >>

visit_definitions ==
    /\ In("visit_definitions", "loop")
    /\ LET i == Top.i IN
       \/ /\ i > Len(doc)
          /\ Return
          /\ UNCHANGED << input, errors, canonical, type_stack, hooks, calls, status >>
       \/ /\ i <= Len(doc)
          /\ doc[i].kind = "Operation"
          /\ Call("loop", i + 1,
                  << Frame("visit_operation_definition", << i >>, "enter", 0) >>)
          /\ UNCHANGED << input, errors, canonical, type_stack, hooks, calls, status >>
       \/ /\ i <= Len(doc)
          /\ doc[i].kind = "Fragment"
          /\ doc[i].type_condition \in DOMAIN registry.types
          /\ type_stack' = with_type_push(type_stack, doc[i].type_condition)
          /\ Call("loop", i + 1,
                  << WithTypeFrame,
                     Frame("visit_fragment_definition", << i >>, "enter", 0) >>)
          /\ UNCHANGED << input, errors, canonical, hooks, calls, status >>
       \/ /\ i <= Len(doc)
          /\ doc[i].kind = "Fragment"
          /\ doc[i].type_condition \notin DOMAIN registry.types
          /\ HeardThenError(<< >>, Position(<< i >>),
                            UnknownTypeMessage(doc[i].type_condition))
          /\ Goto("loop", i + 1)
          /\ UNCHANGED << input, type_stack, hooks, calls, status >>

\* the return of the closure of a with_type call: the pushed type is popped
with_type ==
    /\ In("with_type", "pop")
    /\ type_stack' = with_type_pop(type_stack)
    /\ Return
    /\ UNCHANGED << input, errors, canonical, hooks, calls, status >>

(***************************************************************************)
(* visit_operation_definition                                              *)
(***************************************************************************)
\* RootTypeOf falling back on the query root where the schema has no
\* root type for the operation
RootTypeOf_falls_back(op) ==
    CASE op = "Mutation" /\ registry.mutation_type # NoType -> registry.mutation_type
      [] op = "Subscription" /\ registry.subscription_type # NoType ->
           registry.subscription_type
      [] OTHER -> registry.query_type

\* the root type an operation is visited under; NoType when the schema has
\* none for it
RootTypeOf(op) ==
    CASE op = "SelectionSet" -> registry.query_type
      [] op = "Query" -> registry.query_type
      [] op = "Mutation" -> registry.mutation_type
      [] op = "Subscription" -> registry.subscription_type

NotConfiguredMessage(op) ==
    IF op = "Mutation" THEN "Schema is not configured for mutations."
                       ELSE "Schema is not configured for subscriptions."

\* visit_operation_definition returning from a rejected operation without
\* the exit hook
visit_operation_definition_rejects_silently ==
    \/ /\ In("visit_operation_definition", "enter")
       /\ LET node == Top.node
              operation == NodeAt(node)
              entered == << Hook("enter_operation_definition", node, "") >>
          IN  /\ FireOnly(entered)
              /\ \/ /\ operation.op = "SelectionSet"
                    /\ type_stack' = with_type_push(type_stack, RootTypeOf(operation.op))
                    /\ Call("exit", 0,
                            << WithTypeFrame,
                               Frame("visit_selection_set", node, "enter", 1) >>)
                    /\ Heard(entered)
                 \/ /\ operation.op \in {"Query", "Mutation", "Subscription"}
                    /\ RootTypeOf(operation.op) # NoType
                    /\ type_stack' = with_type_push(type_stack, RootTypeOf(operation.op))
                    /\ Call("exit", 0,
                            << WithTypeFrame,
                               Frame("operation_body", node, "variable_definitions", 0) >>)
                    /\ Heard(entered)
                 \/ /\ operation.op \in {"Mutation", "Subscription"}
                    /\ RootTypeOf(operation.op) = NoType
                    /\ HeardThenError(entered, Position(node),
                                      NotConfiguredMessage(operation.op))
                    /\ Return
                    /\ UNCHANGED type_stack
       /\ UNCHANGED << input, status >>
    \/ /\ In("visit_operation_definition", "exit")
       /\ Fire(<< Hook("exit_operation_definition", Top.node, "") >>)
       /\ Return
       /\ UNCHANGED << input, type_stack, status >>

visit_operation_definition ==
    \/ /\ In("visit_operation_definition", "enter")
       /\ LET node == Top.node
              operation == NodeAt(node)
              entered == << Hook("enter_operation_definition", node, "") >>
          IN  /\ FireOnly(entered)
              /\ \/ /\ operation.op = "SelectionSet"
                    /\ type_stack' = with_type_push(type_stack, RootTypeOf(operation.op))
                    /\ Call("exit", 0,
                            << WithTypeFrame,
                               Frame("visit_selection_set", node, "enter", 1) >>)
                    /\ Heard(entered)
                 \/ /\ operation.op \in {"Query", "Mutation", "Subscription"}
                    /\ RootTypeOf(operation.op) # NoType
                    /\ type_stack' = with_type_push(type_stack, RootTypeOf(operation.op))
                    /\ Call("exit", 0,
                            << WithTypeFrame,
                               Frame("operation_body", node, "variable_definitions", 0) >>)
                    /\ Heard(entered)
                 \/ /\ operation.op \in {"Mutation", "Subscription"}
                    /\ RootTypeOf(operation.op) = NoType
                    /\ HeardThenError(entered, Position(node),
                                      NotConfiguredMessage(operation.op))
                    /\ Goto("exit", 0)
                    /\ UNCHANGED type_stack
       /\ UNCHANGED << input, status >>
    \/ /\ In("visit_operation_definition", "exit")
       /\ Fire(<< Hook("exit_operation_definition", Top.node, "") >>)
       /\ Return
       /\ UNCHANGED << input, type_stack, status >>

\* the closure visit_operation_definition hands to with_type for a query,
\* mutation or subscription
operation_body ==
    /\ \/ /\ In("operation_body", "variable_definitions")
          /\ Call("directives", 0,
                  << Frame("visit_variable_definitions", Top.node, "loop", 1) >>)
       \/ /\ In("operation_body", "directives")
          /\ Call("selection_set", 0,
                  << Frame("visit_directives", Top.node, "enter", 1) >>)
       \/ /\ In("operation_body", "selection_set")
          /\ Call("return", 0,
                  << Frame("visit_selection_set", Top.node, "enter", 1) >>)
       \/ /\ In("operation_body", "return")
          /\ Return
    /\ UNCHANGED << input, errors, canonical, type_stack, hooks, calls, status >>

(***************************************************************************)
(* visit_selection_set, visit_selection                                    *)
(***************************************************************************)
\* visit_selection_set without the early return: an empty selection set
\* gets its two hooks as well
visit_selection_set_always_enters ==
    \/ /\ In("visit_selection_set", "enter")
       /\ Fire(<< Hook("enter_selection_set", Top.node, "") >>)
       /\ Goto("loop", 1)
       /\ UNCHANGED << input, type_stack, status >>
    \/ /\ In("visit_selection_set", "loop")
       /\ Top.i <= Len(NodeAt(Top.node).items)
       /\ Call("loop", Top.i + 1,
               << Frame("visit_selection", Append(Top.node, Top.i), "enter", 0) >>)
       /\ UNCHANGED << input, errors, canonical, type_stack, hooks, calls, status >>
    \/ /\ In("visit_selection_set", "loop")
       /\ Top.i > Len(NodeAt(Top.node).items)
       /\ Fire(<< Hook("exit_selection_set", Top.node, "") >>)
       /\ Return
       /\ UNCHANGED << input, type_stack, status >>

visit_selection_set ==
    \/ /\ In("visit_selection_set", "enter")
       /\ NodeAt(Top.node).items = << >>
       /\ Return
       /\ UNCHANGED << input, errors, canonical, type_stack, hooks, calls, status >>
    \/ /\ In("visit_selection_set", "enter")
       /\ NodeAt(Top.node).items # << >>
       /\ Fire(<< Hook("enter_selection_set", Top.node, "") >>)
       /\ Goto("loop", 1)
       /\ UNCHANGED << input, type_stack, status >>
    \/ /\ In("visit_selection_set", "loop")
       /\ Top.i <= Len(NodeAt(Top.node).items)
       /\ Call("loop", Top.i + 1,
               << Frame("visit_selection", Append(Top.node, Top.i), "enter", 0) >>)
       /\ UNCHANGED << input, errors, canonical, type_stack, hooks, calls, status >>
    \/ /\ In("visit_selection_set", "loop")
       /\ Top.i > Len(NodeAt(Top.node).items)
       /\ Fire(<< Hook("exit_selection_set", Top.node, "") >>)
       /\ Return
       /\ UNCHANGED << input, type_stack, status >>

\* the hook visit_selection fires first
EnterSelection(node) == << Hook("enter_selection", node, "") >>

CannotQueryMessage(fname, tname) ==
    "Cannot query field \"" \o fname \o "\" on type \"" \o tname \o "\"."

\* SelectField with the else of the lookup lost: the unknown field is
\* reported and visited all the same, under the current type
SelectField_descends(node, field) ==
    LET schema_field == field_by_name(current_type, field.name) IN
    \/ /\ schema_field # None
       /\ type_stack' = with_type_push(type_stack,
                                       basic_type_by_typename(registry, schema_field[1].ty))
       /\ Call("exit", 0, << WithTypeFrame, Frame("visit_field", node, "enter", 0) >>)
       /\ Heard(EnterSelection(node))
    \/ /\ schema_field = None
       /\ HeardThenError(EnterSelection(node), Position(node),
                         "Cannot query field \"" \o field.name
                            \o "\" on type \"" \o current_type.name \o "\".")
       /\ type_stack' = with_type_push(type_stack, current_type.name)
       /\ Call("exit", 0, << WithTypeFrame, Frame("visit_field", node, "enter", 0) >>)

\* SelectField pushing the type the field is selected on instead of the
\* type the field returns
SelectField_keeps_parent(node, field) ==
    LET schema_field == field_by_name(current_type, field.name) IN
    \/ /\ schema_field # None
       /\ type_stack' = with_type_push(type_stack, current_type.name)
       /\ Call("exit", 0, << WithTypeFrame, Frame("visit_field", node, "enter", 0) >>)
       /\ Heard(EnterSelection(node))
    \/ /\ schema_field = None
       /\ HeardThenError(EnterSelection(node), Position(node),
                         "Cannot query field \"" \o field.name
                            \o "\" on type \"" \o current_type.name \o "\".")
       /\ Goto("exit", 0)
       /\ UNCHANGED type_stack

\* the Selection::Field arm of visit_selection
SelectField(node, field) ==
    LET schema_field == field_by_name(current_type, field.name) IN
    \/ /\ schema_field # None
       /\ type_stack' = with_type_push(type_stack,
                                       basic_type_by_typename(registry, schema_field[1].ty))
       /\ Call("exit", 0, << WithTypeFrame, Frame("visit_field", node, "enter", 0) >>)
       /\ Heard(EnterSelection(node))
    \/ /\ schema_field = None
       /\ HeardThenError(EnterSelection(node), Position(node),
                         CannotQueryMessage(field.name, current_type.name))
       /\ Goto("exit", 0)
       /\ UNCHANGED type_stack

\* SelectInlineFragment without with_type: the inline fragment is visited
\* under the type of the enclosing selection set
SelectInlineFragment_inherits(node, inline_fragment) ==
    \/ /\ inline_fragment.type_condition # NoTypeCondition
       /\ inline_fragment.type_condition \in DOMAIN registry.types
       /\ Call("exit", 0, << Frame("visit_inline_fragment", node, "enter", 0) >>)
       /\ Heard(EnterSelection(node))
       /\ UNCHANGED type_stack
    \/ /\ inline_fragment.type_condition # NoTypeCondition
       /\ inline_fragment.type_condition \notin DOMAIN registry.types
       /\ HeardThenError(EnterSelection(node), Position(node),
                         "Unknown type \"" \o inline_fragment.type_condition \o "\".")
       /\ Goto("exit", 0)
       /\ UNCHANGED type_stack
    \/ /\ inline_fragment.type_condition = NoTypeCondition
       /\ Goto("exit", 0)
       /\ Heard(EnterSelection(node))
       /\ UNCHANGED type_stack

\* the Selection::InlineFragment arm of visit_selection
SelectInlineFragment(node, inline_fragment) ==
    \/ /\ inline_fragment.type_condition # NoTypeCondition
       /\ inline_fragment.type_condition \in DOMAIN registry.types
       /\ type_stack' = with_type_push(type_stack, inline_fragment.type_condition)
       /\ Call("exit", 0,
               << WithTypeFrame, Frame("visit_inline_fragment", node, "enter", 0) >>)
       /\ Heard(EnterSelection(node))
    \/ /\ inline_fragment.type_condition # NoTypeCondition
       /\ inline_fragment.type_condition \notin DOMAIN registry.types
       /\ HeardThenError(EnterSelection(node), Position(node),
                         UnknownTypeMessage(inline_fragment.type_condition))
       /\ Goto("exit", 0)
       /\ UNCHANGED type_stack
    \/ /\ inline_fragment.type_condition = NoTypeCondition
       /\ Goto("exit", 0)
       /\ Heard(EnterSelection(node))
       /\ UNCHANGED type_stack

visit_selection ==
    \/ /\ In("visit_selection", "enter")
       /\ LET node == Top.node
              selection == NodeAt(node)
          IN  /\ FireOnly(EnterSelection(node))
              /\ \/ /\ selection.kind = "Field"
                    /\ SelectField(node, selection)
                 \/ /\ selection.kind = "FragmentSpread"
                    /\ Call("exit", 0,
                            << Frame("visit_fragment_spread", node, "enter", 0) >>)
                    /\ Heard(EnterSelection(node))
                    /\ UNCHANGED type_stack
                 \/ /\ selection.kind = "InlineFragment"
                    /\ SelectInlineFragment(node, selection)
       /\ UNCHANGED << input, status >>
    \/ /\ In("visit_selection", "exit")
       /\ Fire(<< Hook("exit_selection", Top.node, "") >>)
       /\ Return
       /\ UNCHANGED << input, type_stack, status >>

(***************************************************************************)
(* visit_field, visit_arguments, visit_variable_definitions,               *)
(* visit_directives                                                        *)
(***************************************************************************)
\* visit_field visiting the directives before the arguments
visit_field_directives_first ==
    \/ /\ In("visit_field", "enter")
       /\ Fire(<< Hook("enter_field", Top.node, "") >>)
       /\ Call("directives", 0, << Frame("visit_directives", Top.node, "enter", 1) >>)
       /\ UNCHANGED << input, type_stack, status >>
    \/ /\ In("visit_field", "directives")
       /\ Call("selection_set", 0,
               << Frame("visit_arguments", Position(Top.node), "loop", 1) >>)
       /\ UNCHANGED << input, errors, canonical, type_stack, hooks, calls, status >>
    \/ /\ In("visit_field", "selection_set")
       /\ Call("exit", 0, << Frame("visit_selection_set", Top.node, "enter", 1) >>)
       /\ UNCHANGED << input, errors, canonical, type_stack, hooks, calls, status >>
    \/ /\ In("visit_field", "exit")
       /\ Fire(<< Hook("exit_field", Top.node, "") >>)
       /\ Return
       /\ UNCHANGED << input, type_stack, status >>

visit_field ==
    \/ /\ In("visit_field", "enter")
       /\ Fire(<< Hook("enter_field", Top.node, "") >>)
       /\ Call("directives", 0,
               << Frame("visit_arguments", Position(Top.node), "loop", 1) >>)
       /\ UNCHANGED << input, type_stack, status >>
    \/ /\ In("visit_field", "directives")
       /\ Call("selection_set", 0, << Frame("visit_directives", Top.node, "enter", 1) >>)
       /\ UNCHANGED << input, errors, canonical, type_stack, hooks, calls, status >>
    \/ /\ In("visit_field", "selection_set")
       /\ Call("exit", 0, << Frame("visit_selection_set", Top.node, "enter", 1) >>)
       /\ UNCHANGED << input, errors, canonical, type_stack, hooks, calls, status >>
    \/ /\ In("visit_field", "exit")
       /\ Fire(<< Hook("exit_field", Top.node, "") >>)
       /\ Return
       /\ UNCHANGED << input, type_stack, status >>

\* Top.node is the position of the field or directive the arguments are of
\* visit_arguments handing the hooks a position of the argument itself
visit_arguments_at_argument ==
    /\ In("visit_arguments", "loop")
    /\ LET pos == Top.node
           arguments == ArgumentsAt(pos)
       IN  \/ /\ Top.i <= Len(arguments)
              /\ Fire(<< Hook("enter_argument", pos \o << 0, Top.i >>,
                              arguments[Top.i].name \o ": " \o arguments[Top.i].value),
                         Hook("exit_argument", pos \o << 0, Top.i >>,
                              arguments[Top.i].name \o ": " \o arguments[Top.i].value) >>)
              /\ Goto("loop", Top.i + 1)
           \/ /\ Top.i > Len(arguments)
              /\ Return
              /\ UNCHANGED << errors, canonical, hooks, calls >>
    /\ UNCHANGED << input, type_stack, status >>

\* Top.node is the position handed to visit_arguments; the hooks get the
\* name and the value of the argument, "name: value"
visit_arguments ==
    /\ In("visit_arguments", "loop")
    /\ LET pos == Top.node
           arguments == ArgumentsAt(pos)
       IN  \/ /\ Top.i <= Len(arguments)
              /\ Fire(<< Hook("enter_argument", pos,
                              arguments[Top.i].name \o ": " \o arguments[Top.i].value),
                         Hook("exit_argument", pos,
                              arguments[Top.i].name \o ": " \o arguments[Top.i].value) >>)
              /\ Goto("loop", Top.i + 1)
           \/ /\ Top.i > Len(arguments)
              /\ Return
              /\ UNCHANGED << errors, canonical, hooks, calls >>
    /\ UNCHANGED << input, type_stack, status >>

visit_variable_definitions ==
    /\ In("visit_variable_definitions", "loop")
    /\ LET variable_definitions == NodeAt(Top.node).variable_definitions
       IN  \/ /\ Top.i <= Len(variable_definitions)
              /\ Fire(<< Hook("enter_variable_definition", Top.node,
                              variable_definitions[Top.i]),
                         Hook("exit_variable_definition", Top.node,
                              variable_definitions[Top.i]) >>)
              /\ Goto("loop", Top.i + 1)
           \/ /\ Top.i > Len(variable_definitions)
              /\ Return
              /\ UNCHANGED << errors, canonical, hooks, calls >>
    /\ UNCHANGED << input, type_stack, status >>

\* Top.node is the node the directives are of
visit_directives ==
    /\ LET directives == NodeAt(Top.node).directives
           pos == DirectivePosition(Top.node, Top.i)
       IN  \/ /\ In("visit_directives", "enter")
              /\ Top.i <= Len(directives)
              /\ Fire(<< Hook("enter_directive", pos, "") >>)
              /\ Call("exit", Top.i, << Frame("visit_arguments", pos, "loop", 1) >>)
           \/ /\ In("visit_directives", "exit")
              /\ Fire(<< Hook("exit_directive", pos, "") >>)
              /\ Goto("enter", Top.i + 1)
           \/ /\ In("visit_directives", "enter")
              /\ Top.i > Len(directives)
              /\ Return
              /\ UNCHANGED << errors, canonical, hooks, calls >>
    /\ UNCHANGED << input, type_stack, status >>

(***************************************************************************)
(* visit_fragment_definition, visit_fragment_spread, visit_inline_fragment *)
(***************************************************************************)
visit_fragment_definition ==
    \/ /\ In("visit_fragment_definition", "enter")
       /\ Fire(<< Hook("enter_fragment_definition", Top.node, "") >>)
       /\ Call("selection_set", 0, << Frame("visit_directives", Top.node, "enter", 1) >>)
       /\ UNCHANGED << input, type_stack, status >>
    \/ /\ In("visit_fragment_definition", "selection_set")
       /\ Call("exit", 0, << Frame("visit_selection_set", Top.node, "enter", 1) >>)
       /\ UNCHANGED << input, errors, canonical, type_stack, hooks, calls, status >>
    \/ /\ In("visit_fragment_definition", "exit")
       /\ Fire(<< Hook("exit_fragment_definition", Top.node, "") >>)
       /\ Return
       /\ UNCHANGED << input, type_stack, status >>

\* VisitorContext::fragment
fragment(name) == IF name \in DOMAIN fragments THEN fragments[name] ELSE 0

\* visit_fragment_spread visiting the fragment's selection set under the
\* fragment's own type condition where the registry has that type
visit_fragment_spread_with_type ==
    \/ /\ In("visit_fragment_spread", "enter")
       /\ Fire(<< Hook("enter_fragment_spread", Top.node, "") >>)
       /\ Call("fragment", 0, << Frame("visit_directives", Top.node, "enter", 1) >>)
       /\ UNCHANGED << input, type_stack, status >>
    \/ /\ In("visit_fragment_spread", "fragment")
       /\ fragment(NodeAt(Top.node).name) # 0
       /\ doc[fragment(NodeAt(Top.node).name)].type_condition \in DOMAIN registry.types
       /\ type_stack' = with_type_push(type_stack,
                                       doc[fragment(NodeAt(Top.node).name)].type_condition)
       /\ Call("exit", 0,
               << WithTypeFrame,
                  Frame("visit_selection_set", << fragment(NodeAt(Top.node).name) >>,
                        "enter", 1) >>)
       /\ UNCHANGED << input, errors, canonical, hooks, calls, status >>
    \/ /\ In("visit_fragment_spread", "fragment")
       /\ fragment(NodeAt(Top.node).name) # 0
       /\ doc[fragment(NodeAt(Top.node).name)].type_condition \notin DOMAIN registry.types
       /\ Call("exit", 0,
               << Frame("visit_selection_set", << fragment(NodeAt(Top.node).name) >>,
                        "enter", 1) >>)
       /\ UNCHANGED << input, errors, canonical, type_stack, hooks, calls, status >>
    \/ /\ In("visit_fragment_spread", "fragment")
       /\ fragment(NodeAt(Top.node).name) = 0
       /\ Goto("exit", 0)
       /\ UNCHANGED << input, errors, canonical, type_stack, hooks, calls, status >>
    \/ /\ In("visit_fragment_spread", "exit")
       /\ Fire(<< Hook("exit_fragment_spread", Top.node, "") >>)
       /\ Return
       /\ UNCHANGED << input, type_stack, status >>

\* visit_fragment_spread that leaves the fragment's selection set to the
\* visit of the fragment's definition
visit_fragment_spread_once ==
    \/ /\ In("visit_fragment_spread", "enter")
       /\ Fire(<< Hook("enter_fragment_spread", Top.node, "") >>)
       /\ Call("fragment", 0, << Frame("visit_directives", Top.node, "enter", 1) >>)
       /\ UNCHANGED << input, type_stack, status >>
    \/ /\ In("visit_fragment_spread", "fragment")
       /\ Goto("exit", 0)
       /\ UNCHANGED << input, errors, canonical, type_stack, hooks, calls, status >>
    \/ /\ In("visit_fragment_spread", "exit")
       /\ Fire(<< Hook("exit_fragment_spread", Top.node, "") >>)
       /\ Return
       /\ UNCHANGED << input, type_stack, status >>

visit_fragment_spread ==
    \/ /\ In("visit_fragment_spread", "enter")
       /\ Fire(<< Hook("enter_fragment_spread", Top.node, "") >>)
       /\ Call("fragment", 0, << Frame("visit_directives", Top.node, "enter", 1) >>)
       /\ UNCHANGED << input, type_stack, status >>
    \/ /\ In("visit_fragment_spread", "fragment")
       /\ fragment(NodeAt(Top.node).name) # 0
       /\ Call("exit", 0,
               << Frame("visit_selection_set", << fragment(NodeAt(Top.node).name) >>,
                        "enter", 1) >>)
       /\ UNCHANGED << input, errors, canonical, type_stack, hooks, calls, status >>
    \/ /\ In("visit_fragment_spread", "fragment")
       /\ fragment(NodeAt(Top.node).name) = 0
       /\ Goto("exit", 0)
       /\ UNCHANGED << input, errors, canonical, type_stack, hooks, calls, status >>
    \/ /\ In("visit_fragment_spread", "exit")
       /\ Fire(<< Hook("exit_fragment_spread", Top.node, "") >>)
       /\ Return
       /\ UNCHANGED << input, type_stack, status >>

visit_inline_fragment ==
    \/ /\ In("visit_inline_fragment", "enter")
       /\ Fire(<< Hook("enter_inline_fragment", Top.node, "") >>)
       /\ Call("selection_set", 0, << Frame("visit_directives", Top.node, "enter", 1) >>)
       /\ UNCHANGED << input, type_stack, status >>
    \/ /\ In("visit_inline_fragment", "selection_set")
       /\ Call("exit", 0, << Frame("visit_selection_set", Top.node, "enter", 1) >>)
       /\ UNCHANGED << input, errors, canonical, type_stack, hooks, calls, status >>
    \/ /\ In("visit_inline_fragment", "exit")
       /\ Fire(<< Hook("exit_inline_fragment", Top.node, "") >>)
       /\ Return
       /\ UNCHANGED << input, type_stack, status >>

\* the recursion has outgrown the thread's stack: the process aborts
StackOverflow ==
    /\ status = "running"
    /\ Len(stack) > StackCapacity
    /\ status' = "overflow"
    /\ UNCHANGED << input, errors, canonical, type_stack, stack, hooks, calls >>

Next ==
    \/ visit
    \/ visit_definitions
    \/ with_type
    \/ visit_operation_definition
    \/ operation_body
    \/ visit_selection_set
    \/ visit_selection
    \/ visit_field
    \/ visit_arguments
    \/ visit_variable_definitions
    \/ visit_directives
    \/ visit_fragment_definition
    \/ visit_fragment_spread
    \/ visit_inline_fragment
    \/ StackOverflow

Spec == Init /\ [][Next]_vars

\* the traversal of a document of one definition with a chain of rules
ChainDocuments == UNION { DocumentsOf(1, n) : n \in 0..MaxSelections }
ChainInit == \E d \in ChainDocuments, r \in Registries, v \in Chains : Start(d, r, v)
ChainSpec == ChainInit /\ [][Next]_vars

(***************************************************************************)
(* Two requests validated at once: after the traversal has run alone, two  *)
(* traversals of the same document start, each with a context of its own   *)
(* and both with the one registry; the thread that takes steps changes at  *)
(* any point.                                                              *)
(***************************************************************************)
\* the context of the traversal taking steps, and where its thread is
Context ==
    [errors |-> errors, canonical |-> canonical, type_stack |-> type_stack,
     stack |-> stack, hooks |-> hooks, calls |-> calls, status |-> status]
\* VisitorContext::new and the call of visit
NewContext ==
    [errors |-> << >>, canonical |-> << >>, type_stack |-> << >>,
     stack |-> << Frame("visit", << >>, "enter", 0) >>, hooks |-> << >>,
     calls |-> << >>, status |-> "running"]

\* one vector for the errors of every context
shared_by_all(own, shared) == shared
\* the vector a context owns
request_local(own, shared) == own

\* the thread of context ctx takes the steps from now on
Resume(ctx) ==
    /\ errors' = request_local(ctx.errors, errors)
    /\ canonical' = ctx.canonical
    /\ type_stack' = ctx.type_stack
    /\ stack' = ctx.stack
    /\ hooks' = ctx.hooks
    /\ calls' = ctx.calls
    /\ status' = ctx.status

Spawn ==
    /\ status = "returned"
    /\ alone = None
    /\ alone' = Some(errors)
    /\ other' = Some(NewContext)
    /\ Resume(NewContext)
    /\ UNCHANGED << doc, registry, chain, fragments, dynamic >>

Switch ==
    /\ other # None
    /\ other' = Some(Context)
    /\ Resume(other[1])
    /\ UNCHANGED << doc, registry, chain, fragments, alone, dynamic >>

ConcurrentInit == \E d \in ChainDocuments, r \in Registries : Start(d, r, VisitorNil)
ConcurrentNext ==
    \/ Next
    \/ Spawn
    \/ Switch
ConcurrentSpec == ConcurrentInit /\ [][ConcurrentNext]_vars

(***************************************************************************)
(* The dynamic schema: a resolver's FieldValue is built with the           *)
(* constructors and read with the accessors; no traversal is going on.     *)
(***************************************************************************)
NoTraversal ==
    /\ doc = << >>
    /\ registry = Registry(NoType, NoType)
    /\ chain = VisitorNil
    /\ fragments = Fragments(<< >>)
    /\ errors = << >>
    /\ canonical = << >>
    /\ type_stack = << >>
    /\ stack = << >>
    /\ hooks = << >>
    /\ calls = << >>
    /\ status = "idle"
    /\ other = None
    /\ alone = None

traversal ==
    << doc, registry, chain, fragments, errors, type_stack, stack, hooks,
       calls, canonical, status, other, alone >>

Construct(v) ==
    /\ fv' = v
    /\ result' = NoResult
    /\ UNCHANGED << enum, field_builder, traversal >>

Returned(op, T, out) ==
    /\ result' = [op |-> op, arg |-> T, out |-> out]
    /\ UNCHANGED << fv, enum, field_builder, traversal >>

Construct_value == \E v \in Values : Construct(value(v))
Construct_owned_any == \E obj \in Objects : Construct(owned_any(obj))
Construct_borrowed_any == \E obj \in Objects : Construct(borrowed_any(obj))
Construct_list ==
    /\ Depth(fv) < MaxDepth
    /\ \E n \in 0..MaxListLen : Construct(list([i \in 1..n |-> fv]))
Construct_with_type ==
    /\ Depth(fv) < MaxDepth
    /\ \E ty \in TypeNames : Construct(FieldValue_with_type(fv, ty))

Call_as_value == Returned("as_value", "", as_value(fv))
Call_try_to_value == Returned("try_to_value", "", try_to_value(fv))
Call_as_list == Returned("as_list", "", as_list(fv))
Call_try_to_list == Returned("try_to_list", "", try_to_list(fv))
Call_downcast_ref == \E T \in TypeIds : Returned("downcast_ref", T, downcast_ref(fv, T))
Call_try_downcast_ref ==
    \E T \in TypeIds : Returned("try_downcast_ref", T, try_downcast_ref(fv, T))

FieldValueInit ==
    /\ NoTraversal
    /\ fv = NULL
    /\ enum = Enum_new("")
    /\ field_builder = Field_new("", "")
    /\ result = NoResult
FieldValueNext ==
    \/ Construct_value
    \/ Construct_owned_any
    \/ Construct_borrowed_any
    \/ Construct_list
    \/ Construct_with_type
    \/ Call_as_value
    \/ Call_try_to_value
    \/ Call_as_list
    \/ Call_try_to_list
    \/ Call_downcast_ref
    \/ Call_try_downcast_ref
FieldValueSpec == FieldValueInit /\ [][FieldValueNext]_vars

(***************************************************************************)
(* The dynamic schema: an Enum is built, registered, and queries are run   *)
(* against the schema it is registered in; a Field is given arguments.     *)
(***************************************************************************)
\* the builder has been handed to the schema
Registered ==
    /\ enum.name \in DOMAIN registry.types
    /\ registry.types[enum.name].kind = "Enum"

Enum_description ==
    /\ ~Registered
    /\ enum.description = None
    /\ enum' = description(enum, "d")
    /\ UNCHANGED << fv, field_builder, result, traversal >>

Enum_item ==
    /\ ~Registered
    /\ \E x \in EnumItems :
         /\ enum' = item(enum, x)
         /\ result' = [op |-> "item", arg |-> x, out |-> << >>]
    /\ UNCHANGED << fv, field_builder, traversal >>

Field_argument ==
    /\ \E x \in InputValues :
         /\ field_builder' = argument(field_builder, x)
         /\ result' = [op |-> "argument", arg |-> x, out |-> << >>]
    /\ UNCHANGED << fv, enum, traversal >>

Enum_register ==
    /\ ~Registered
    /\ registry' = register(enum, registry)
    /\ result' = [op |-> "register", arg |-> enum.name, out |-> Ok(<< >>)]
    /\ UNCHANGED << doc, chain, fragments, errors, type_stack, stack, hooks,
                    calls, canonical, status, other, alone, fv, enum,
                    field_builder >>

\* a query that validation lets through: the enum literals it passes are
\* values of the enum
Schema_execute ==
    /\ Registered
    /\ \E q \in Queries :
         /\ \A i \in DOMAIN q :
              q[i].input # None =>
                q[i].input[1] \in Keys(registry.types[enum.name].enum_values)
         /\ result' = [op |-> "execute", arg |-> q,
                       out |-> into_result(execute(registry, enum.name, q))]
    /\ UNCHANGED << fv, enum, field_builder, traversal >>

EnumInit ==
    /\ NoTraversal
    /\ fv = NULL
    /\ \E n \in EnumNames : enum = Enum_new(n)
    /\ field_builder = Field_new("value2", "MyEnum")
    /\ result = NoResult
EnumNext ==
    \/ Enum_description
    \/ Enum_item
    \/ Field_argument
    \/ Enum_register
    \/ Schema_execute
EnumSpec == EnumInit /\ [][EnumNext]_vars

(***************************************************************************)
(* Properties of the traversal, read off the hooks it has fired.           *)
(***************************************************************************)
Event(h, node, arg, ts, n) ==
    [hook |-> h, node |-> node, arg |-> arg, type_stack |-> ts, errors |-> n]

EnterHooks ==
    { "enter_document", "enter_operation_definition", "enter_fragment_definition",
      "enter_variable_definition", "enter_directive", "enter_argument",
      "enter_selection_set", "enter_selection", "enter_field",
      "enter_fragment_spread", "enter_inline_fragment" }

\* the indices of the enter hooks that no exit hook has answered yet,
\* outermost first
RECURSIVE Open(_)
Open(log) ==
    IF log = << >> THEN << >>
    ELSE LET o == Open(Front(log)) IN
         IF Last(log).hook \in EnterHooks THEN Append(o, Len(log))
         ELSE IF o = << >> THEN o ELSE Front(o)

\* a selection the k-th hook is the enter_selection of
IsSelection(e, kind) ==
    e.hook = "enter_selection" /\ NodeAt(e.node).kind = kind

\* the selection after n in the selection set n is in, if there is one
HasNextSibling(n) ==
    Last(n) < Len(NodeAt(Front(n)).items)
NextSibling(n) == Append(Front(n), Last(n) + 1)

\* C1: a field the current type does not have gets exactly one error
\* 'Cannot query field "<field>" on type "<type>".' at the field's position;
\* enter_selection is followed at once by exit_selection, so that no
\* enter_field/exit_field hook fires and none of the field's arguments,
\* directives or nested selections is visited; the type stack is as it was,
\* and the next sibling selection is visited next.
C1_UnknownFieldCase(e) ==
    /\ IsSelection(e, "Field")
    /\ NodeAt(e.node).name \notin DOMAIN registry.types[Last(e.type_stack)].fields
C1_UnknownField ==
    \A k \in 1..Len(hooks) :
      C1_UnknownFieldCase(hooks[k]) =>
        LET e == hooks[k]
            n == e.node
        IN  /\ Len(errors) > e.errors
            /\ errors[e.errors + 1] =
                 [locations |-> << n >>,
                  message |-> "Cannot query field \"" \o NodeAt(n).name
                              \o "\" on type \"" \o Last(e.type_stack) \o "\"."]
            /\ k = Len(hooks) =>
                 type_stack = e.type_stack /\ Len(errors) = e.errors + 1
            /\ k < Len(hooks) =>
                 hooks[k + 1] =
                   Event("exit_selection", n, "", e.type_stack, e.errors + 1)
            /\ k + 1 < Len(hooks) /\ HasNextSibling(n) =>
                 hooks[k + 2] =
                   Event("enter_selection", NextSibling(n), "", e.type_stack,
                         e.errors + 1)
\* an unknown field with arguments, directives and selections has been left
C1_Witness ==
    \E k \in 1..Len(hooks) :
      /\ C1_UnknownFieldCase(hooks[k])
      /\ NodeAt(hooks[k].node).arguments # << >>
      /\ NodeAt(hooks[k].node).directives # << >>
      /\ NodeAt(hooks[k].node).items # << >>
      /\ k < Len(hooks)

\* C2: a mutation (subscription) visited on a schema without a mutation
\* (subscription) root gets exactly one error 'Schema is not configured for
\* mutations.' ('... subscriptions.') at the operation's position; nothing
\* is pushed on the type stack and exit_operation_definition follows
\* enter_operation_definition at once: none of the variable definitions,
\* directives or selections of the operation is visited.
C2_NotConfiguredCase(e) ==
    /\ e.hook = "enter_operation_definition"
    /\ \/ NodeAt(e.node).op = "Mutation" /\ registry.mutation_type = NoType
       \/ NodeAt(e.node).op = "Subscription" /\ registry.subscription_type = NoType
C2_NotConfigured ==
    \A k \in 1..Len(hooks) :
      C2_NotConfiguredCase(hooks[k]) =>
        LET e == hooks[k]
            n == e.node
        IN  /\ Len(errors) > e.errors
            /\ errors[e.errors + 1] =
                 [locations |-> << n >>,
                  message |-> IF NodeAt(n).op = "Mutation"
                              THEN "Schema is not configured for mutations."
                              ELSE "Schema is not configured for subscriptions."]
            /\ k = Len(hooks) =>
                 type_stack = e.type_stack /\ Len(errors) = e.errors + 1
            /\ k < Len(hooks) =>
                 hooks[k + 1] =
                   Event("exit_operation_definition", n, "", e.type_stack,
                         e.errors + 1)
\* a mutation with variable definitions and selections has been rejected
C2_Witness ==
    \E k \in 1..Len(hooks) :
      /\ C2_NotConfiguredCase(hooks[k])
      /\ NodeAt(hooks[k].node).variable_definitions # << >>
      /\ NodeAt(hooks[k].node).items # << >>
      /\ k < Len(hooks)

\* C3: the type stack is pushed on descent and popped on ascent: it is as
\* deep as there are with_type calls in progress, every exit hook sees the
\* type stack its enter hook saw, and the stack is empty when visit has
\* returned.
C3_TypeStackDiscipline ==
    /\ Len(type_stack) =
         Cardinality({ j \in 1..Len(stack) : stack[j].fn = "with_type" })
    /\ status = "returned" => type_stack = << >>
    /\ (hooks # << >> /\ Last(hooks).hook \notin EnterHooks) =>
         LET o == Open(Front(hooks)) IN
         /\ o # << >>
         /\ hooks[Last(o)].node = Last(hooks).node
         /\ hooks[Last(o)].type_stack = Last(hooks).type_stack
\* visit has returned from a document in which types were pushed and errors
\* were reported
C3_Witness ==
    /\ status = "returned"
    /\ errors # << >>
    /\ \E k \in 1..Len(hooks) : Len(hooks[k].type_stack) >= 2

\* the selection a hook is fired for while that selection is visited: the
\* node itself for its field and inline-fragment hooks, its arguments and its
\* selection set, the owner of a directive, the parent of a selection;
\* << >> for the other hooks
Owner(e) ==
    CASE e.hook \in {"enter_field", "exit_field",
                     "enter_inline_fragment", "exit_inline_fragment"} -> e.node
      [] e.hook \in {"enter_argument", "exit_argument"} ->
           IF IsDirectivePosition(e.node)
           THEN SubSeq(e.node, 1, Len(e.node) - 2) ELSE e.node
      [] e.hook \in {"enter_directive", "exit_directive"} ->
           SubSeq(e.node, 1, Len(e.node) - 2)
      [] e.hook \in {"enter_selection_set", "exit_selection_set"} -> e.node
      [] e.hook \in {"enter_selection", "exit_selection"} -> Front(e.node)
      [] OTHER -> << >>

\* the hooks fired by the last step (visit_arguments fires two at once)
Recent == { k \in 1..Len(hooks) : k >= Len(hooks) - 1 }

\* the index of the latest enter_selection of node n before the k-th hook
EnteredAt(n, k) ==
    LET ks == { j \in 1..(k - 1) :
                  hooks[j].hook = "enter_selection" /\ hooks[j].node = n }
    IN  IF ks = { } THEN 0 ELSE CHOOSE j \in ks : \A i \in ks : i <= j

\* the named type at the base of the output type each field of the schema
\* is declared with
DeclaredBase(t, f) ==
    CASE t = "Query" /\ f = "o" -> "Obj"
      [] t = "Obj" /\ f = "o" -> "Query"
      [] t \in {"Mutation", "Subscription"} /\ f = "o" -> "Int"

\* C4: while a field that exists on the current type T is visited (at
\* enter_field, at the hooks of its arguments, directives, selection set and
\* of the selections in it, and at exit_field) the type stack is the stack
\* the selection was entered with plus the type named at the base of the
\* field's declared output type, so that type is the current type and T is
\* parent_type(); when the selection is left the stack is as it was entered.
C4_KnownField(n, k) ==
    /\ Len(n) >= 2
    /\ NodeAt(n).kind = "Field"
    /\ EnteredAt(n, k) # 0
    /\ NodeAt(n).name \in
         DOMAIN registry.types[Last(hooks[EnteredAt(n, k)].type_stack)].fields
C4_FieldType ==
    \A k \in Recent :
      LET e == hooks[k] IN
      /\ (Owner(e) # << >> /\ C4_KnownField(Owner(e), k)) =>
           LET S == hooks[EnteredAt(Owner(e), k)].type_stack
               base == DeclaredBase(Last(S), NodeAt(Owner(e)).name)
           IN  /\ e.type_stack = Append(S, base)
               /\ (/\ k = Len(hooks)
                   /\ e.hook \in {"enter_field", "exit_field"}
                   /\ Top.fn \in {"visit_field", "with_type"}) =>
                    /\ current_type = registry.types[base]
                    /\ parent_type = Last(S)
      /\ (e.hook = "exit_selection" /\ C4_KnownField(e.node, k)) =>
           e.type_stack = hooks[EnteredAt(e.node, k)].type_stack
\* a known field with arguments, directives and selections has been left
C4_Witness ==
    /\ hooks # << >>
    /\ Last(hooks).hook = "exit_selection"
    /\ C4_KnownField(Last(hooks).node, Len(hooks))
    /\ NodeAt(Last(hooks).node).items # << >>
    /\ NodeAt(Last(hooks).node).arguments # << >>
    /\ NodeAt(Last(hooks).node).directives # << >>

\* the hooks of the arguments args of the field or directive at pos
RECURSIVE ArgumentEvents(_, _, _, _)
ArgumentEvents(pos, args, ts, n) ==
    IF args = << >> THEN << >>
    ELSE << Event("enter_argument", pos,
                  Head(args).name \o ": " \o Head(args).value, ts, n),
            Event("exit_argument", pos,
                  Head(args).name \o ": " \o Head(args).value, ts, n) >>
         \o ArgumentEvents(pos, Tail(args), ts, n)

\* the hooks of the directives of node p from the i-th on
RECURSIVE DirectiveEvents(_, _, _, _)
DirectiveEvents(p, i, ts, n) ==
    IF i > Len(NodeAt(p).directives) THEN << >>
    ELSE << Event("enter_directive", p \o << 0, i >>, "", ts, n) >>
         \o ArgumentEvents(p \o << 0, i >>, NodeAt(p).directives[i].arguments, ts, n)
         \o << Event("exit_directive", p \o << 0, i >>, "", ts, n) >>
         \o DirectiveEvents(p, i + 1, ts, n)

\* the definitions of the document that are fragments named name
FragmentsNamed(name) ==
    { i \in 1..Len(doc) : doc[i].kind = "Fragment" /\ doc[i].name = name }
\* the one a spread of that name refers to
Spread(name) == CHOOSE i \in FragmentsNamed(name) : \A j \in FragmentsNamed(name) : j <= i

\* C5: enter_fragment_spread fires under the type stack of the selection,
\* the hooks of the spread's directives follow, then, if the document
\* defines a fragment of that name, its selection set is visited under the
\* same type stack (the current type of the spread, whatever the fragment's
\* type condition), then exit_fragment_spread fires; a spread of a fragment
\* the document does not define fires both hooks and adds no error.
C5_FragmentSpread ==
    hooks # << >> =>
      LET k == Len(hooks)
          e == hooks[k]
          o == Open(Front(hooks))
          m == Last(o)
          s == hooks[m]
          D == DirectiveEvents(s.node, 1, s.type_stack, s.errors)
          name == NodeAt(s.node).name
      IN  /\ e.hook = "enter_fragment_spread" =>
                hooks[k - 1] = Event("enter_selection", e.node, "", e.type_stack, e.errors)
          /\ (/\ e.hook = "enter_selection_set"
              /\ Len(e.node) = 1
              /\ s.hook = "enter_fragment_spread") =>
                /\ FragmentsNamed(name) # { }
                /\ e.node = << Spread(name) >>
                /\ SubSeq(hooks, m + 1, k - 1) = D
                /\ e.type_stack = s.type_stack
                /\ e.errors = s.errors
          /\ e.hook = "exit_fragment_spread" =>
                /\ s = Event("enter_fragment_spread", e.node, "", e.type_stack, s.errors)
                /\ IF FragmentsNamed(name) = { }
                   THEN SubSeq(hooks, m + 1, k - 1) = D /\ e.errors = s.errors
                   ELSE IF doc[Spread(name)].items = << >>
                   THEN SubSeq(hooks, m + 1, k - 1) = D /\ e.errors = s.errors
                   ELSE /\ SubSeq(hooks, m + 1, m + Len(D)) = D
                        /\ hooks[m + Len(D) + 1] =
                             Event("enter_selection_set", << Spread(name) >>, "",
                                   s.type_stack, s.errors)
                        /\ hooks[k - 1] =
                             Event("exit_selection_set", << Spread(name) >>, "",
                                   s.type_stack, e.errors)
\* a spread has been left whose fragment has selections and a type condition
\* other than the current type of the spread
C5_Witness ==
    /\ hooks # << >>
    /\ Last(hooks).hook = "exit_fragment_spread"
    /\ FragmentsNamed(NodeAt(Last(hooks).node).name) # { }
    /\ doc[Spread(NodeAt(Last(hooks).node).name)].items # << >>
    /\ doc[Spread(NodeAt(Last(hooks).node).name)].type_condition
         # Last(Last(hooks).type_stack)

\* C6: an inline fragment without a type condition is visited under the
\* type of the enclosing selection set: its selection is entered,
\* enter_inline_fragment fires next, under the same type stack and with no
\* error added.
C6_InlineFragmentInheritsType ==
    \A k \in 1..Len(hooks) :
      (/\ IsSelection(hooks[k], "InlineFragment")
       /\ NodeAt(hooks[k].node).type_condition = NoTypeCondition
       /\ k < Len(hooks)) =>
         hooks[k + 1] = Event("enter_inline_fragment", hooks[k].node, "",
                              hooks[k].type_stack, hooks[k].errors)

\* the selection n, entered before the k-th hook, is an inline fragment
\* with a type condition the registry has (known) or has not
C7_InlineFragment(n, k, known) ==
    /\ Len(n) >= 2
    /\ NodeAt(n).kind = "InlineFragment"
    /\ EnteredAt(n, k) # 0
    /\ NodeAt(n).type_condition # NoTypeCondition
    /\ (NodeAt(n).type_condition \in DOMAIN registry.types) = known

\* C7: while an inline fragment with a type condition naming a type of the
\* registry is visited, the type stack is the stack its selection was
\* entered with plus that type, and the stack is as it was entered when the
\* selection is left; with a type condition naming no type of the registry,
\* the error Unknown type "N". is reported at the inline fragment's
\* position and exit_selection is the next hook: no hook fires for the
\* inline fragment, its directives or its selections.
C7_InlineFragmentTypeCondition ==
    /\ \A k \in Recent :
         LET e == hooks[k] IN
         /\ (Owner(e) # << >> /\ C7_InlineFragment(Owner(e), k, TRUE)) =>
              e.type_stack = Append(hooks[EnteredAt(Owner(e), k)].type_stack,
                                    NodeAt(Owner(e)).type_condition)
         /\ (e.hook = "exit_selection" /\ C7_InlineFragment(e.node, k, TRUE)) =>
              /\ e.type_stack = hooks[EnteredAt(e.node, k)].type_stack
              /\ hooks[k - 1].hook = "exit_inline_fragment"
              /\ hooks[k - 1].node = e.node
    /\ \A k \in 1..Len(hooks) :
         (hooks[k].hook = "enter_selection"
            /\ C7_InlineFragment(hooks[k].node, k + 1, FALSE)) =>
           LET e == hooks[k]
               n == e.node
           IN  /\ Len(errors) > e.errors
               /\ errors[e.errors + 1] =
                    [locations |-> << n >>,
                     message |-> "Unknown type \"" \o NodeAt(n).type_condition \o "\"."]
               /\ k = Len(hooks) =>
                    type_stack = e.type_stack /\ Len(errors) = e.errors + 1
               /\ k < Len(hooks) =>
                    hooks[k + 1] = Event("exit_selection", n, "",
                                         e.type_stack, e.errors + 1)
\* an inline fragment on a registered type, with directives and selections,
\* has been left
C7_Witness ==
    /\ hooks # << >>
    /\ Last(hooks).hook = "exit_selection"
    /\ C7_InlineFragment(Last(hooks).node, Len(hooks), TRUE)
    /\ NodeAt(Last(hooks).node).items # << >>
    /\ NodeAt(Last(hooks).node).directives # << >>

\* the i-th definition is a fragment whose type condition names a type of
\* the registry (known) or does not
C8_Fragment(i, known) ==
    /\ doc[i].kind = "Fragment"
    /\ (doc[i].type_condition \in DOMAIN registry.types) = known

\* the errors reported at the i-th definition
C8_ErrorsAt(i) == { j \in 1..Len(errors) : errors[j].locations = << << i >> >> }

\* visit_definitions is past the i-th definition
C8_Past(i) ==
    \E k \in 1..Len(hooks) :
      \/ hooks[k].hook = "exit_document"
      \/ /\ hooks[k].hook \in {"enter_operation_definition", "enter_fragment_definition"}
         /\ hooks[k].node[1] > i

\* C8: a fragment definition whose type condition names a type of the
\* registry is visited with that type as the type stack: at
\* enter_fragment_definition, at the hooks of its directives and of its
\* selection set, and at exit_fragment_definition.  One whose type condition
\* names no type of the registry gets exactly one error, Unknown type "N".
\* at the fragment's position, no definition hook and no visit of its
\* directives or, as a definition, of its selections; the definitions after
\* it are visited as usual.
C8_FragmentDefinition ==
    /\ \A k \in Recent :
         LET e == hooks[k]
             o == Open(SubSeq(hooks, 1, k - 1))
         IN  /\ (/\ e.hook \in {"enter_fragment_definition", "exit_fragment_definition"}
                 /\ C8_Fragment(e.node[1], TRUE)) =>
                   e.type_stack = << doc[e.node[1]].type_condition >>
             /\ (/\ k = Len(hooks)
                 /\ o # << >>
                 /\ hooks[Last(o)].hook = "enter_fragment_definition"
                 /\ C8_Fragment(hooks[Last(o)].node[1], TRUE)) =>
                   /\ e.type_stack = << doc[hooks[Last(o)].node[1]].type_condition >>
                   /\ e.node[1] = hooks[Last(o)].node[1]
    /\ \A i \in 1..Len(doc) :
         C8_Fragment(i, FALSE) =>
           /\ \A k \in 1..Len(hooks) :
                /\ hooks[k].node # << i >>
                     \/ hooks[k].hook \in {"enter_selection_set", "exit_selection_set"}
                /\ (Len(hooks[k].node) > 2 /\ hooks[k].node[2] = 0) =>
                     hooks[k].node[1] # i
           /\ (hooks # << >> /\ Last(hooks).node # << >> /\ Last(hooks).node[1] = i) =>
                \E j \in 1..(Len(hooks) - 1) :
                  /\ hooks[j].hook = "enter_fragment_spread"
                  /\ NodeAt(hooks[j].node).name = doc[i].name
           /\ Cardinality(C8_ErrorsAt(i)) <= 1
           /\ \A j \in C8_ErrorsAt(i) :
                errors[j].message = "Unknown type \"" \o doc[i].type_condition \o "\"."
           /\ C8_Past(i) => Cardinality(C8_ErrorsAt(i)) = 1
    /\ status = "returned" =>
         \A i \in 1..Len(doc) :
           \/ C8_Fragment(i, FALSE)
           \/ \E k \in 1..(Len(hooks) - 1) : \E l \in (k + 1)..Len(hooks) :
                /\ hooks[k].node = << i >>
                /\ hooks[l].node = << i >>
                /\ hooks[k].hook = IF doc[i].kind = "Fragment"
                                   THEN "enter_fragment_definition"
                                   ELSE "enter_operation_definition"
                /\ hooks[l].hook = IF doc[i].kind = "Fragment"
                                   THEN "exit_fragment_definition"
                                   ELSE "exit_operation_definition"
\* a fragment with directives and selections on an unknown type was
\* skipped and the definition after it has been visited
C8_Witness ==
    /\ status = "returned"
    /\ Len(doc) = 2
    /\ C8_Fragment(1, FALSE)
    /\ doc[1].items # << >>
    /\ C8_ErrorsAt(1) # { }
    /\ \E k \in 1..Len(hooks) : hooks[k].node = << 2 >>

\* C9: visit returns for every registry and document, documents whose
\* fragments spread themselves included: the recursion of the traversal
\* never outgrows the stack.
C9_ValidationTotal == status # "overflow"

\* the exit hook that answers an enter hook
ExitOf(h) ==
    CASE h = "enter_document" -> "exit_document"
      [] h = "enter_operation_definition" -> "exit_operation_definition"
      [] h = "enter_fragment_definition" -> "exit_fragment_definition"
      [] h = "enter_variable_definition" -> "exit_variable_definition"
      [] h = "enter_directive" -> "exit_directive"
      [] h = "enter_argument" -> "exit_argument"
      [] h = "enter_selection_set" -> "exit_selection_set"
      [] h = "enter_selection" -> "exit_selection"
      [] h = "enter_field" -> "exit_field"
      [] h = "enter_fragment_spread" -> "exit_fragment_spread"
      [] h = "enter_inline_fragment" -> "exit_inline_fragment"

\* the hooks fired so far are nested, and balanced once the traversal is
\* over
Balanced(over) ==
    /\ hooks # << >> => hooks[1].hook = "enter_document"
    /\ \A k \in 1..Len(hooks) :
         /\ hooks[k].hook = "enter_document" => k = 1
         /\ hooks[k].hook = "exit_document" => k = Len(hooks)
    /\ \A k \in Recent :
         hooks[k].hook \notin EnterHooks =>
           LET o == Open(SubSeq(hooks, 1, k - 1)) IN
           /\ o # << >>
           /\ hooks[k].hook = ExitOf(hooks[Last(o)].hook)
           /\ hooks[k].node = hooks[Last(o)].node
           /\ hooks[k].arg = hooks[Last(o)].arg
    /\ over =>
         /\ hooks # << >>
         /\ Last(hooks).hook = "exit_document"
         /\ Open(hooks) = << >>

\* C10: every exit hook answers the innermost enter hook that is still
\* open, on the same node; enter_document is the first hook; and when the
\* traversal is over every enter hook has been answered, exit_document
\* last.
C10_HooksBalanced == Balanced(status # "running")

\* every hook fired so far has run the hook of each of the rules rs once,
\* in the order of rs, on the node and argument the traversal fired it with
NotifiedInOrder(rs) ==
    /\ Len(calls) = Len(rs) * Len(hooks)
    /\ \A k \in 1..Len(hooks) : \A j \in 1..Len(rs) :
         calls[(k - 1) * Len(rs) + j] =
           [visitor |-> rs[j], hook |-> hooks[k].hook,
            node |-> hooks[k].node, arg |-> hooks[k].arg]

\* C11: every hook fired on a chain runs that hook of each visitor of the
\* chain exactly once, on the same node, the head of a VisitorCons before
\* its tail, so from the outermost head to the innermost tail; VisitorNil
\* runs nothing.
C11_ChainDispatch ==
    /\ NotifiedInOrder(Heads(chain))
    /\ chain = VisitorNil => calls = << >> /\ errors = canonical
\* a traversal with a chain of two rules has returned
C11_Witness ==
    /\ status = "returned"
    /\ Len(Heads(chain)) = 2
    /\ Len(calls) >= 12

\* C12: when the chain is built as VisitorNil.with(r1).with(r2)...with(rn),
\* every hook runs the hook of r1 first, then that of r2, and so on to rn.
C12_InsertionOrder ==
    \A rs \in RuleSeqs : chain = Build(rs) => NotifiedInOrder(rs)

\* the hooks of the variable definitions of operation p from the i-th on
RECURSIVE VariableEvents(_, _, _, _)
VariableEvents(p, i, ts, n) ==
    IF i > Len(NodeAt(p).variable_definitions) THEN << >>
    ELSE << Event("enter_variable_definition", p, NodeAt(p).variable_definitions[i], ts, n),
            Event("exit_variable_definition", p, NodeAt(p).variable_definitions[i], ts, n) >>
         \o VariableEvents(p, i + 1, ts, n)

\* the hooks after the k-th are the hooks es, as far as they have fired
FollowedBy(k, es) ==
    \A j \in 1..Len(es) : k + j <= Len(hooks) => hooks[k + j] = es[j]

\* the hook that opens the selection set of node p, or else the hook last
\* (under type stack ls) that closes p
ThenSelectionSet(p, ts, n, last, ls) ==
    IF NodeAt(p).items # << >>
    THEN << Event("enter_selection_set", p, "", ts, n) >>
    ELSE << Event(last, p, "", ls, n) >>

\* the k-th hook opens a query, mutation or subscription the schema has a
\* root type for
C13_ConfiguredOperation(k) ==
    /\ hooks[k].hook = "enter_operation_definition"
    /\ NodeAt(hooks[k].node).op \in {"Query", "Mutation", "Subscription"}
    /\ (NodeAt(hooks[k].node).op = "Mutation" => registry.mutation_type # NoType)
    /\ (NodeAt(hooks[k].node).op = "Subscription" => registry.subscription_type # NoType)

\* C13: in a query, mutation or subscription whose root type is configured
\* the hooks of all variable definitions come first, then those of all
\* directives, then the selection set; in a fragment definition the
\* directives come before the selection set; in a field the hooks of all
\* arguments come first, then the directives, each with the hooks of its
\* arguments between its enter and its exit hook, then the selection set;
\* and the selection set is the last thing visited before the exit hook.
C13_SubVisitOrder ==
    \A k \in 1..Len(hooks) :
      LET e == hooks[k]
          p == e.node
          root == << IF NodeAt(p).op = "Query" THEN registry.query_type
                     ELSE IF NodeAt(p).op = "Mutation" THEN registry.mutation_type
                     ELSE registry.subscription_type >>
      IN  /\ C13_ConfiguredOperation(k) =>
               FollowedBy(k, VariableEvents(p, 1, root, e.errors)
                             \o DirectiveEvents(p, 1, root, e.errors)
                             \o ThenSelectionSet(p, root, e.errors,
                                                 "exit_operation_definition", << >>))
          /\ e.hook = "enter_fragment_definition" =>
               FollowedBy(k, DirectiveEvents(p, 1, e.type_stack, e.errors)
                             \o ThenSelectionSet(p, e.type_stack, e.errors,
                                                 "exit_fragment_definition", e.type_stack))
          /\ e.hook = "enter_field" =>
               FollowedBy(k, ArgumentEvents(p, NodeAt(p).arguments, e.type_stack, e.errors)
                             \o DirectiveEvents(p, 1, e.type_stack, e.errors)
                             \o ThenSelectionSet(p, e.type_stack, e.errors,
                                                 "exit_field", e.type_stack))
          /\ (/\ e.hook \in {"exit_field", "exit_fragment_definition",
                             "exit_operation_definition"}
              /\ NodeAt(p).items # << >>
              /\ hooks[k - 1].hook # "enter_operation_definition") =>
               /\ hooks[k - 1].hook = "exit_selection_set"
               /\ hooks[k - 1].node = p
\* a query with variable definitions and directives has been visited, and
\* in it a field with arguments, directives and selections
C13_Witness ==
    /\ status = "returned"
    /\ doc[1].op = "Query"
    /\ \E k \in 1..Len(hooks) :
         /\ hooks[k].hook = "exit_field"
         /\ hooks[k].node = << 1, 1 >>
         /\ NodeAt(<< 1, 1 >>).items # << >>
         /\ NodeAt(<< 1, 1 >>).arguments # << >>

\* C14: an empty selection set gets neither enter_selection_set nor
\* exit_selection_set; for a selection set that is not empty
\* enter_selection_set fires, then its selections are visited one after the
\* other in the order of the document, then exit_selection_set fires.
C14_SelectionSet ==
    \A k \in 1..Len(hooks) :
      LET e == hooks[k] IN
      /\ e.hook \in {"enter_selection_set", "exit_selection_set"} =>
           NodeAt(e.node).items # << >>
      /\ (e.hook = "enter_selection_set" /\ k < Len(hooks)) =>
           /\ hooks[k + 1].hook = "enter_selection"
           /\ hooks[k + 1].node = Append(e.node, 1)
      /\ e.hook = "enter_selection" =>
           IF Last(e.node) = 1
           THEN /\ hooks[k - 1].hook = "enter_selection_set"
                /\ hooks[k - 1].node = Front(e.node)
           ELSE /\ hooks[k - 1].hook = "exit_selection"
                /\ hooks[k - 1].node = Append(Front(e.node), Last(e.node) - 1)
      /\ (e.hook = "exit_selection" /\ k < Len(hooks)) =>
           IF HasNextSibling(e.node)
           THEN /\ hooks[k + 1].hook = "enter_selection"
                /\ hooks[k + 1].node = NextSibling(e.node)
           ELSE /\ hooks[k + 1].hook = "exit_selection_set"
                /\ hooks[k + 1].node = Front(e.node)
      /\ e.hook = "exit_selection_set" =>
           /\ hooks[k - 1].hook = "exit_selection"
           /\ hooks[k - 1].node = Append(e.node, Len(NodeAt(e.node).items))
      /\ (e.hook \in {"exit_field", "exit_inline_fragment"}
            /\ NodeAt(e.node).items = << >>) =>
           hooks[k - 1].node # e.node \/ hooks[k - 1].hook # "exit_selection_set"
\* a selection set of two selections and, in it, a field with an empty
\* selection set have been visited
C14_Witness ==
    /\ hooks # << >>
    /\ Last(hooks).hook = "exit_selection_set"
    /\ Len(NodeAt(Last(hooks).node).items) = 2
    /\ \E k \in 1..Len(hooks) :
         hooks[k].hook = "exit_field" /\ NodeAt(hooks[k].node).items = << >>

\* C15: parent_type answers with the entry below the top of the type stack
\* when the stack holds two entries or more and with none when it holds
\* fewer; a rule that asks for it in its enter_field hook is told the type
\* the field is selected on, and the type stack is as it was before.
C15_ParentType ==
    /\ [](Len(type_stack) >= 2 => parent_type = type_stack[Len(type_stack) - 1])
    /\ [](Len(type_stack) < 2 => parent_type = NoType)
    /\ [][\A i \in (Len(errors) + 1)..Len(errors') :
            errors'[i].message = "r2: field" =>
              /\ type_stack' = type_stack
              /\ Len(type_stack) >= 2
              /\ i > Len(errors) + 1
              /\ errors'[i - 1].message
                   = "r2: parent " \o type_stack[Len(type_stack) - 1]]_vars
\* a rule has asked for the parent type under a stack of three types
C15_Witness ==
    /\ Len(type_stack) >= 3
    /\ type_stack[Len(type_stack) - 1] # type_stack[Len(type_stack)]
    /\ errors # << >>
    /\ Last(errors).message = "r2: field"

\* C16: errors are only ever aggregated: every step leaves the errors
\* recorded so far where they are and as they are, and appends the new ones
\* behind them; a step of the traversal that fires no hook appends at most
\* one error; the errors a rule hands to append_errors are appended in the
\* order given; and a step that records an error leaves the traversal
\* running, unless it is the return of visit itself.
C16_ErrorsAggregated ==
    [][/\ Len(errors') >= Len(errors)
       /\ SubSeq(errors', 1, Len(errors)) = errors
       /\ hooks' = hooks => Len(errors') <= Len(errors) + 1
       /\ \A i \in (Len(errors) + 1)..Len(errors') :
            errors'[i].message = "r2: field" =>
              /\ i > Len(errors) + 1
              /\ errors'[i - 1].locations = errors'[i].locations
              /\ errors'[i - 1].message = "r2: parent " \o parent_type
       /\ errors' # errors =>
            \/ status' = "running" /\ stack' # << >>
            \/ status' = "returned" /\ stack' = << >>]_vars
\* a traversal has returned with errors of the traversal and of two rules
C16_Witness ==
    /\ status = "returned"
    /\ Len(Heads(chain)) = 2
    /\ \E i, j, k \in 1..Len(errors) :
         /\ errors[i].message = "r1: enter_field"
         /\ errors[j].message = "r2: field"
         /\ errors[k].message = "Cannot query field \"zz\" on type \"Obj\"."

\* the errors es as a bag
ErrorBag(es) ==
    [x \in { es[i] : i \in 1..Len(es) } |->
       Cardinality({ i \in 1..Len(es) : es[i] = x })]

\* C17: the errors of a traversal do not depend on the order in which the
\* rules are composed into the chain: whatever the order, they are, up to
\* their order (so after sorting by location and message), the errors of
\* the traversal with the same rules composed in one fixed order.
C17_OrderIndependent == ErrorBag(errors) = ErrorBag(canonical)
\* a traversal has returned whose errors differ in order from those of the
\* same rules composed the other way round
C17_Witness ==
    /\ status = "returned"
    /\ Len(Heads(chain)) = 2
    /\ errors # canonical

(***************************************************************************)
(* Properties of the FieldValue accessors, read off the last call.         *)
(***************************************************************************)
\* C19: for every value v, as_value of FieldValue::value(v) is present and
\* is v; on a BorrowedAny, OwnedAny, List or WithType as_value is absent and
\* try_to_value fails with 'internal: not a Value'; as_list is present
\* exactly on a List, and try_to_list fails with 'internal: not a list' on
\* every other variant.
C19_ValueAndList ==
    /\ result.op = "as_value" =>
         IF fv.tag \in {"BorrowedAny", "OwnedAny", "List", "WithType"}
         THEN result.out = None
         ELSE \E v \in Values : fv = value(v) /\ result.out = Some(v)
    /\ result.op = "try_to_value"
         /\ fv.tag \in {"BorrowedAny", "OwnedAny", "List", "WithType"} =>
         result.out = Err("internal: not a Value")
    /\ result.op = "as_list" => (result.out # None <=> fv.tag = "List")
    /\ result.op = "try_to_list" /\ fv.tag # "List" =>
         result.out = Err("internal: not a list")
\* try_to_value has failed on a typed wrapper around a Value
C19_Witness ==
    /\ result.op = "try_to_value"
    /\ fv.tag = "WithType"
    /\ fv.value.tag = "Value"
    /\ result.out = Err("internal: not a Value")

\* the FieldValue is directly an erased object of type T
DirectlyAny(v, T) ==
    v.tag \in {"OwnedAny", "BorrowedAny"} /\ v.value.type_id = T

\* C20: downcast_ref<T> returns the stored object exactly when the
\* FieldValue is directly an OwnedAny or BorrowedAny whose object has type
\* identity T; otherwise (another stored type, a Value, a List, a WithType,
\* even one that wraps an object of type T) it returns nothing and
\* try_downcast_ref<T> fails with 'internal: not type "<name of T>"'.
C20_Downcast ==
    /\ result.op = "downcast_ref" =>
         result.out = IF DirectlyAny(fv, result.arg) THEN Some(fv.value) ELSE None
    /\ result.op = "try_downcast_ref" /\ ~DirectlyAny(fv, result.arg) =>
         /\ ~result.out.ok
         /\ result.out.v \in { "internal: not type \"i32\"",
                               "internal: not type \"alloc::string::String\"" }
         /\ result.out.v = "internal: not type \"" \o type_name(result.arg) \o "\""
\* downcast_ref<T> has returned nothing on a typed wrapper around an object
\* of type T
C20_Witness ==
    /\ result.op = "downcast_ref"
    /\ fv.tag = "WithType"
    /\ fv.value.tag = "OwnedAny"
    /\ fv.value.value.type_id = result.arg
    /\ result.out = None

(***************************************************************************)
(* Properties of the enum type, read off the last call.                    *)
(***************************************************************************)
\* the fields of query q whose resolver returns a name the enum was not
\* given
Undeclared(q) ==
    { i \in DOMAIN q : Resolved(q[i]) \notin Keys(enum.enum_values) }
InvalidItem(q, i) ==
    ServerError("internal: invalid item for enum \"" \o enum.name \o "\"",
                Pos(1, Column(q, i)), << q[i].name >>)

\* C18: when the resolver of an enum-typed field returns a name, the name
\* is the field's data if it is a declared value of the enum (also when it
\* comes from an enum-typed argument); otherwise the request fails with an
\* error 'internal: invalid item for enum "<EnumName>"' whose path is that
\* field and whose location is the field's position in the query, and the
\* result carries no data.
C18_EnumOutput ==
    result.op = "execute" =>
      LET q == result.arg IN
      IF Undeclared(q) = { }
      THEN /\ result.out.ok
           /\ result.out.v[1].errors = << >>
           /\ DOMAIN result.out.v[1].data = DOMAIN q
           /\ \A i \in DOMAIN q :
                result.out.v[1].data[i] =
                  Entry(q[i].name, [kind |-> "Enum", v |-> Resolved(q[i])])
      ELSE /\ ~result.out.ok
           /\ Len(result.out.v) = Cardinality(Undeclared(q))
           /\ \A i \in Undeclared(q) :
                \E k \in DOMAIN result.out.v : result.out.v[k] = InvalidItem(q, i)
           /\ 1 \in Undeclared(q) => result.out.v[1].locations = << Pos(1, 3) >>
\* "{ errValue }" on MyEnum with the items A and B has failed with the one
\* error at line 1, column 3
C18_Witness ==
    /\ result.op = "execute"
    /\ result.arg = << QueryField("errValue", None) >>
    /\ enum.name = "MyEnum"
    /\ Keys(enum.enum_values) = { "A", "B" }
    /\ result.out =
         Err(<< ServerError("internal: invalid item for enum \"MyEnum\"",
                            Pos(1, 3), << "errValue" >>) >>)

\* the entries an ordered map holds under a key
Held(map, key) == { map[i].value : i \in { j \in DOMAIN map : map[j].key = key } }
\* one entry per name, held under its own name
OnePerName(map) ==
    \A i, j \in DOMAIN map :
      /\ map[i].key = map[i].value.name
      /\ map[i].key = map[j].key => i = j
\* a call that adds x to the map changes what is held under the name of x,
\* and nothing else
Added(before, after, x) ==
    /\ Held(after, x.name) = { x }
    /\ \A i \in DOMAIN before :
         before[i].key # x.name => Held(after, before[i].key) = { before[i].value }

\* C21: duplicate names within one builder are last-wins: whatever Enum::item
\* (resp. Field::argument) calls were made, the builder holds one entry per
\* distinct name, and the entry of a name is the item (resp. input value)
\* most recently added under it: a call replaces what its name held and
\* leaves every other name with what it held.
C21_LastWins ==
    /\ [](OnePerName(enum.enum_values) /\ OnePerName(field_builder.arguments))
    /\ [](result.op = "item" => Held(enum.enum_values, result.arg.name) = { result.arg })
    /\ [](result.op = "argument" =>
            Held(field_builder.arguments, result.arg.name) = { result.arg })
    /\ [][/\ result'.op = "item" =>
               Added(enum.enum_values, enum'.enum_values, result'.arg)
          /\ result'.op = "argument" =>
               Added(field_builder.arguments, field_builder'.arguments, result'.arg)
          /\ result'.op \notin { "item" } => enum'.enum_values = enum.enum_values
          /\ result'.op \notin { "argument" } =>
               field_builder'.arguments = field_builder.arguments]_vars
\* an item has been added under a name the builder already held, the first
\* of its two names
C21_Witness ==
    /\ result.op = "item"
    /\ Len(enum.enum_values) = 2
    /\ enum.enum_values[1] = Entry(result.arg.name, result.arg)
    /\ result.arg.description # None

\* the names of an ordered map, in its order
KeySeq(map) == [i \in DOMAIN map |-> map[i].key]

\* C22: Enum::register is total and faithful: it can be called on every
\* builder and returns Ok, and it leaves under the enum's name in
\* registry.types an Enum MetaType with the builder's name and description
\* whose values are the builder's items, name, description and deprecation,
\* in the order in which the distinct item names were added (an item added
\* again keeps the place of its name).
C22_RegisterFaithful ==
    /\ [](~Registered => ENABLED Enum_register)
    /\ [](result.op = "register" => result.out = Ok(<< >>))
    /\ [](Registered =>
            LET meta == registry.types[enum.name] IN
            /\ meta.kind = "Enum"
            /\ meta.name = enum.name
            /\ meta.description = enum.description
            /\ DOMAIN meta.enum_values = DOMAIN enum.enum_values
            /\ \A i \in DOMAIN enum.enum_values :
                 /\ meta.enum_values[i].key = enum.enum_values[i].key
                 /\ meta.enum_values[i].value.name = enum.enum_values[i].value.name
                 /\ meta.enum_values[i].value.description =
                      enum.enum_values[i].value.description
                 /\ meta.enum_values[i].value.deprecation =
                      enum.enum_values[i].value.deprecation)
    /\ [][result'.op = "item" =>
            KeySeq(enum'.enum_values) =
              IF result'.arg.name \in Keys(enum.enum_values)
              THEN KeySeq(enum.enum_values)
              ELSE Append(KeySeq(enum.enum_values), result'.arg.name)]_vars
\* a described enum of three items, the second with a description, has
\* just been registered
C22_Witness ==
    /\ Registered
    /\ result.op = "register"
    /\ enum.description # None
    /\ Len(enum.enum_values) = 3
    /\ enum.enum_values[2].value.description # None
    /\ enum.enum_values[1].value.description = None

\* C23: registering an Enum whose name a type of the registry already holds
\* ends in a DuplicateType failure, and that type is not replaced.
C23_DuplicateType ==
    [][enum.name \in DOMAIN registry.types /\ result'.op = "register"
         /\ result.op # "register" =>
         /\ ~result'.out.ok
         /\ registry' = registry]_vars

(***************************************************************************)
(* Properties of two traversals validated at once.                         *)
(***************************************************************************)
\* the errors es are the errors of the run alone as far as the traversal
\* in state st has come: a prefix of them, and all of them once it returned
AsAlone(es, st) ==
    /\ Len(es) <= Len(alone[1])
    /\ es = SubSeq(alone[1], 1, Len(es))
    /\ st = "returned" => es = alone[1]

\* C24: the registry is read-only during validation and a traversal's
\* context is its own: whatever the interleaving of the steps of two
\* traversals that share the registry, neither overflows its stack where the
\* run alone did not, the errors of each are at every point the errors the
\* traversal has when it runs alone, and no step changes the registry or
\* the document.
C24_Interleaving ==
    /\ [](other # None =>
            /\ AsAlone(errors, status)
            /\ AsAlone(other[1].errors, other[1].status)
            /\ status # "overflow")
    /\ [][registry' = registry /\ doc' = doc /\ fragments' = fragments]_vars
\* both traversals are under way, each inside a selection set of its own,
\* and one has reported an error the other has not come to yet
C24_Witness ==
    /\ other # None
    /\ status = "running"
    /\ other[1].status = "running"
    /\ errors # << >>
    /\ other[1].errors = << >>
    /\ other[1].hooks # << >>
    /\ type_stack # << >>
    /\ other[1].type_stack # << >>
    /\ type_stack # other[1].type_stack

(***************************************************************************)
(* Further properties of the traversal.                                    *)
(***************************************************************************)
\* C25: the hooks that follow the enter hook of a field, and those that
\* follow the enter hook of a directive, are enter_argument and, at once,
\* exit_argument for each of its arguments in the order written, with the
\* argument's name and value and the position of that field or directive;
\* and every enter_argument hook is followed at once by the exit_argument
\* hook of the same argument and position.
C25_Arguments ==
    \A k \in 1..Len(hooks) :
      LET e == hooks[k] IN
      /\ e.hook \in {"enter_field", "enter_directive"} =>
           /\ FollowedBy(k, ArgumentEvents(e.node, ArgumentsAt(e.node),
                                           e.type_stack, e.errors))
           /\ k + 2 * Len(ArgumentsAt(e.node)) < Len(hooks) =>
                hooks[k + 2 * Len(ArgumentsAt(e.node)) + 1].hook
                  \notin {"enter_argument", "exit_argument"}
      /\ e.hook = "enter_argument" =>
           /\ k < Len(hooks)
           /\ hooks[k + 1] = [e EXCEPT !.hook = "exit_argument"]
           /\ hooks[k - 1].hook \in {"enter_field", "enter_directive", "exit_argument"}
           /\ hooks[k - 1].node = e.node
\* the hooks of a field with two arguments and of a directive with one have
\* fired
C25_Witness ==
    \E k, l \in 1..Len(hooks) :
      /\ hooks[k].hook = "exit_argument"
      /\ ~IsDirectivePosition(hooks[k].node)
      /\ Len(NodeAt(hooks[k].node).arguments) = 2
      /\ hooks[k].arg = "y: 2"
      /\ hooks[l].hook = "exit_argument"
      /\ IsDirectivePosition(hooks[l].node)

\* the closure invariant of a registry: the root type names and the base
\* name of the type of every field are registered
Closed(reg) ==
    /\ reg.query_type \in DOMAIN reg.types
    /\ \A root \in { reg.mutation_type, reg.subscription_type } \ { NoType } :
         root \in DOMAIN reg.types
    /\ \A t \in DOMAIN reg.types : \A f \in DOMAIN reg.types[t].fields :
         concrete_typename(reg.types[t].fields[f].ty) \in DOMAIN reg.types

\* the hooks of the visits that consult, or whose rules consult, the
\* current type
TypedHooks ==
    { "enter_selection_set", "exit_selection_set", "enter_selection",
      "exit_selection", "enter_field", "exit_field", "enter_fragment_spread",
      "exit_fragment_spread", "enter_inline_fragment", "exit_inline_fragment" }

\* C26: with a registry that satisfies the closure invariant no lookup of
\* the traversal fails, whatever the document: the type stack is not empty
\* and holds registered types at every selection, selection-set, field,
\* fragment-spread and inline-fragment visit, and the output type of every
\* field that is descended into resolves.
C26_NoFailedLookup ==
    Closed(registry) =>
      /\ \A k \in 1..Len(hooks) :
           hooks[k].hook \in TypedHooks =>
             /\ hooks[k].type_stack # << >>
             /\ \A i \in DOMAIN hooks[k].type_stack :
                  hooks[k].type_stack[i] \in DOMAIN registry.types
      /\ (Running /\ Top.fn \in { "visit_selection_set", "visit_selection", "visit_field",
                                  "visit_fragment_spread", "visit_inline_fragment" }) =>
           /\ type_stack # << >>
           /\ Last(type_stack) \in DOMAIN registry.types
      /\ (/\ In("visit_selection", "enter")
          /\ NodeAt(Top.node).kind = "Field"
          /\ field_by_name(current_type, NodeAt(Top.node).name) # None) =>
           basic_type_by_typename(
             registry, field_by_name(current_type, NodeAt(Top.node).name)[1].ty) # NoType
\* a mutation with a field inside a field has been visited to the end
C26_Witness ==
    /\ status = "returned"
    /\ Closed(registry)
    /\ registry.mutation_type # NoType
    /\ \E k \in 1..Len(hooks) :
         /\ hooks[k].hook = "enter_field"
         /\ Len(hooks[k].type_stack) >= 3

\* the hooks h fired for node p
Fired(h, p) == { k \in 1..Len(hooks) : hooks[k].hook = h /\ hooks[k].node = p }
\* the visited spreads that refer to the fragment definition d
SpreadsOf(d) ==
    { k \in 1..Len(hooks) :
        /\ hooks[k].hook = "enter_fragment_spread"
        /\ FragmentsNamed(NodeAt(hooks[k].node).name) # { }
        /\ Spread(NodeAt(hooks[k].node).name) = d }
\* the errors reported at the position of node p
ErrorsAt(p) == { i \in 1..Len(errors) : errors[i].locations = << Position(p) >> }
\* the fragment definitions with a registered type condition and selections
ResolvedFragments ==
    { d \in 1..Len(doc) :
        /\ doc[d].kind = "Fragment"
        /\ doc[d].type_condition \in DOMAIN registry.types
        /\ doc[d].items # << >> }

\* C27: the selection set of a fragment whose type condition resolves is
\* traversed once for the definition, under the type condition, and once
\* more for every visited spread that refers to it, under the type stack of
\* the spread; so a field of the fragment is reported as unknown at most
\* once more than there are such spreads.
C27_FragmentTraversals ==
    \A d \in ResolvedFragments :
      /\ Cardinality(Fired("enter_fragment_definition", << d >>)) <= 1
      /\ Cardinality(Fired("enter_selection_set", << d >>))
           <= Cardinality(Fired("enter_fragment_definition", << d >>))
                + Cardinality(SpreadsOf(d))
      /\ status = "returned" =>
           /\ Cardinality(Fired("enter_fragment_definition", << d >>)) = 1
           /\ Cardinality(Fired("enter_selection_set", << d >>))
                = 1 + Cardinality(SpreadsOf(d))
      /\ \A k \in Fired("enter_selection_set", << d >>) :
           \/ /\ hooks[k].type_stack = << doc[d].type_condition >>
              /\ \E j \in Fired("enter_fragment_definition", << d >>) : j < k
           \/ \E j \in SpreadsOf(d) :
                j < k /\ hooks[j].type_stack = hooks[k].type_stack
      /\ \A i \in DOMAIN doc[d].items :
           Cardinality(ErrorsAt(<< d, i >>)) <= 1 + Cardinality(SpreadsOf(d))
\* a fragment that is spread once has been traversed twice, and a field of
\* it has been reported twice
C27_Witness ==
    /\ status = "returned"
    /\ \E d \in ResolvedFragments :
         /\ Cardinality(SpreadsOf(d)) = 1
         /\ Cardinality(Fired("enter_selection_set", << d >>)) = 2
         /\ \E i \in DOMAIN doc[d].items : Cardinality(ErrorsAt(<< d, i >>)) = 2

\* C28: enter_operation_definition and exit_operation_definition fire, once
\* each, for every operation definition, those rejected for a missing
\* mutation or subscription root included, and with an empty type stack;
\* enter_fragment_definition and exit_fragment_definition fire with the
\* fragment's type condition on the type stack.
C28_DefinitionHooks ==
    /\ \A k \in 1..Len(hooks) :
         /\ hooks[k].hook \in {"enter_operation_definition", "exit_operation_definition"} =>
              /\ hooks[k].type_stack = << >>
              /\ NodeAt(hooks[k].node).kind = "Operation"
         /\ hooks[k].hook \in {"enter_fragment_definition", "exit_fragment_definition"} =>
              /\ hooks[k].type_stack # << >>
              /\ Last(hooks[k].type_stack) = NodeAt(hooks[k].node).type_condition
    /\ \A d \in 1..Len(doc) :
         doc[d].kind = "Operation" =>
           /\ Cardinality(Fired("exit_operation_definition", << d >>))
                <= Cardinality(Fired("enter_operation_definition", << d >>))
           /\ Cardinality(Fired("enter_operation_definition", << d >>)) <= 1
           /\ status = "returned" =>
                Cardinality(Fired("exit_operation_definition", << d >>)) = 1
\* a mutation the schema is not configured for and a fragment definition
\* have both had their hooks
C28_Witness ==
    /\ status = "returned"
    /\ registry.mutation_type = NoType
    /\ \E d, f \in 1..Len(doc) :
         /\ doc[d].kind = "Operation"
         /\ doc[d].op = "Mutation"
         /\ Fired("exit_operation_definition", << d >>) # { }
         /\ Fired("exit_fragment_definition", << f >>) # { }

=============================================================================
